-------------------------- MODULE Reasoning_proofs --------------------------
(***************************************************************************)
(* Proofs about Reasoning, for any bounds on facts, claims, images,        *)
(* attempts and cycles: which graph _build_graph builds of a parsed goal,  *)
(* which of its claims are grounded, and what that makes of the answer.    *)
(***************************************************************************)
EXTENDS Reasoning, DataLemmas

-----------------------------------------------------------------------------
(* What _build_graph returns, said without its loop.                       *)

Facts(s) == {"fact"} \X (1 .. s.facts)
ClaimIds(k) == {"claim"} \X (1 .. k)
Given(s, k) == {GoalId} \cup Facts(s) \cup ClaimIds(k)

(* The ids that the first k claims cite before there is such a node.       *)
Introduced(s, k) == {id \in Ids : \E j \in 1 .. k : s.claims[j] = id /\ id \notin Given(s, j - 1)}

GraphAt(s, k) ==
  [nodes |-> {Node(GoalId, "goal")} \cup {Node(f, "fact") : f \in Facts(s)}
               \cup {Node(c, "claim") : c \in ClaimIds(k)}
               \cup {Node(e, "evidence") : e \in Introduced(s, k)},
   edges |-> {Support(f, GoalId) : f \in Facts(s)} \cup {Support(c, GoalId) : c \in ClaimIds(k)}
               \cup {Support(s.claims[j], <<"claim", j>>) :
                       j \in {i \in 1 .. k : s.claims[i] # NoEvidence}}]

(* What parsing returns and TaskNodeId and TaskEdge accept.                *)
Parsed(s) ==
  /\ s.facts \in 0 .. 2 * MaxFacts
  /\ s.attachments \in 0 .. MaxAttachments
  /\ s.claims \in Seq(Ids \cup {NoEvidence})
  /\ Len(s.claims) <= MaxClaims
  /\ \A j \in 1 .. Len(s.claims) : s.claims[j] # <<"claim", j>>

(* The recursive function of BuildGraph.                                   *)
Step(G, s, i) ==
  IF i = 0
  THEN [nodes |-> {Node(GoalId, "goal")} \cup {Node(f, "fact") : f \in {"fact"} \X (1 .. s.facts)},
        edges |-> {Support(f, GoalId) : f \in {"fact"} \X (1 .. s.facts)}]
  ELSE WithClaim(G[i - 1], i, s.claims[i])

Images(s) == {"attachment"} \X (1 .. s.attachments)
WithImages(g, s) ==
  [g EXCEPT !.nodes = @ \cup {Node(a, "evidence") : a \in Images(s) \ IdsOf(g.nodes)}]

LEMMA StepsExist ==
  ASSUME NEW s, NEW n \in Nat
  PROVE  \E G : G = [i \in 0 .. n |-> Step(G, s, i)]
<1> DEFINE Is(G, k) == G = [i \in 0 .. k |-> Step(G, s, i)]
           Bad == {k \in Nat : ~\E G : Is(G, k)}
<1>1. SUFFICES ASSUME Bad # {} PROVE FALSE
  OBVIOUS
<1>2. PICK k \in Bad : \A m \in Bad : k <= m
  BY <1>1, SmallestNumber
<1>3. CASE k = 0
  <2> DEFINE G == [i \in 0 .. 0 |-> Step(0, s, 0)]
  <2>1. Is(G, 0)
    BY DEF Step
  <2> QED
    BY <1>3, <2>1
<1>4. CASE k # 0
  <2>1. k - 1 \in Nat /\ k - 1 \notin Bad
    BY <1>2, <1>4
  <2>2. PICK G : Is(G, k - 1)
    BY <2>1
  <2> DEFINE H == [i \in 0 .. k |-> Step(G, s, i)]
  <2>3. \A i \in 0 .. k - 1 : H[i] = G[i]
    BY <2>2
  <2>4. \A i \in 0 .. k : Step(H, s, i) = Step(G, s, i)
    <3> HIDE DEF H
    <3> QED
      BY <2>1, <2>3 DEF Step
  <2>5. Is(H, k)
    BY <2>4
  <2> HIDE DEF H
  <2> QED
    BY <2>5
<1> QED
  BY <1>3, <1>4

LEMMA BuildSteps ==
  ASSUME NEW s, Len(s.claims) \in Nat
  PROVE  \E G : /\ G = [i \in 0 .. Len(s.claims) |-> Step(G, s, i)]
                /\ BuildGraph(s) = WithImages(G[Len(s.claims)], s)
<1> DEFINE Is(G) == G = [i \in 0 .. Len(s.claims) |-> Step(G, s, i)]
           C == CHOOSE G : Is(G)
<1>1. \E G : Is(G)
  BY StepsExist
<1>2. Is(C)
  <2> HIDE DEF Is
  <2> QED
    BY <1>1
<1>3. BuildGraph(s) = WithImages(C[Len(s.claims)], s)
  BY DEF BuildGraph, Step, WithImages, Images
<1> HIDE DEF C
<1> QED
  BY <1>2, <1>3

(* The ids of nodes are their own.                                         *)
LEMMA NodesKnown ==
  /\ \A id \in Ids, kind \in {"goal", "fact", "claim", "evidence"} :
       /\ Node(id, kind) \in NodeObjects
       /\ IdOfNode[Node(id, kind)] = id /\ KindOfNode[Node(id, kind)] = kind
  /\ NodeIds = Ids
<1>1. \A id \in Ids, kind \in {"goal", "fact", "claim", "evidence"} :
        Node(id, kind) \in NodeObjects /\ Node(id, kind).id = id /\ Node(id, kind).kind = kind
  BY DEF Node, NodeObjects
<1>2. \A n \in NodeObjects : IdOfNode[n] = n.id /\ KindOfNode[n] = n.kind /\ n.id \in Ids
  BY DEF IdOfNode, KindOfNode, NodeObjects
<1>3. NodeIds = Ids
  BY <1>1, <1>2 DEF NodeIds
<1> QED
  BY <1>1, <1>2, <1>3

LEMMA GivenKnown ==
  ASSUME NEW s, Parsed(s), NEW k \in 0 .. Len(s.claims)
  PROVE  /\ Given(s, k) \subseteq Ids /\ Introduced(s, k) \subseteq Ids
         /\ Images(s) \subseteq Ids /\ GoalId \in Ids /\ FoundId \in Ids
         /\ Len(s.claims) \in Nat
<1>1. s.facts \in Nat /\ s.facts <= 2 * MaxFacts /\ s.attachments \in Nat /\ s.attachments <= MaxAttachments
  BY DEF Parsed
<1>2. MaxFacts \in Nat /\ MaxClaims \in Nat /\ MaxAttachments \in Nat
  BY BoundAssumption
<1>3. Len(s.claims) \in Nat /\ k \in Nat /\ k <= MaxClaims
  BY <1>2, LenProperties DEF Parsed
<1>4. Facts(s) \subseteq {"fact"} \X (1 .. 2 * MaxFacts)
  BY <1>1, <1>2 DEF Facts
<1>5. ClaimIds(k) \subseteq {"claim"} \X (1 .. MaxClaims)
  BY <1>2, <1>3 DEF ClaimIds
<1>6. Images(s) \subseteq {"attachment"} \X (1 .. MaxAttachments)
  BY <1>1, <1>2 DEF Images
<1> QED
  BY <1>3, <1>4, <1>5, <1>6 DEF Given, Introduced, Ids

LEMMA IdsAt ==
  ASSUME NEW s, Parsed(s), NEW k \in 0 .. Len(s.claims)
  PROVE  IdsOf(GraphAt(s, k).nodes) = Given(s, k) \cup Introduced(s, k)
<1> DEFINE ns == GraphAt(s, k).nodes
<1>1. ns = {Node(GoalId, "goal")} \cup {Node(f, "fact") : f \in Facts(s)}
             \cup {Node(c, "claim") : c \in ClaimIds(k)}
             \cup {Node(e, "evidence") : e \in Introduced(s, k)}
  BY DEF GraphAt
<1>2. /\ GoalId \in Ids /\ Facts(s) \subseteq Ids /\ ClaimIds(k) \subseteq Ids
      /\ Introduced(s, k) \subseteq Ids
  BY GivenKnown DEF Given
<1> HIDE DEF ns
<1>3. IdsOf(ns) = {GoalId} \cup Facts(s) \cup ClaimIds(k) \cup Introduced(s, k)
  BY <1>1, <1>2, NodesKnown DEF IdsOf
<1> QED
  BY <1>3 DEF Given, ns

LEMMA StepAdds ==
  ASSUME NEW s, Parsed(s), NEW k \in 1 .. Len(s.claims)
  PROVE  WithClaim(GraphAt(s, k - 1), k, s.claims[k]) = GraphAt(s, k)
<1> DEFINE cited == s.claims[k]
           id == <<"claim", k>>
           g == GraphAt(s, k - 1)
           new == IF cited \in IdsOf(g.nodes) \cup {NoEvidence} THEN {} ELSE {Node(cited, "evidence")}
           link == IF cited = NoEvidence THEN {} ELSE {Support(cited, id)}
<1>1. Len(s.claims) \in Nat /\ k - 1 \in 0 .. Len(s.claims) /\ cited \in Ids \cup {NoEvidence}
      /\ k \in Nat \ {0}
  <2>1. s.claims \in Seq(Ids \cup {NoEvidence})
    BY DEF Parsed
  <2>2. Len(s.claims) \in Nat /\ DOMAIN s.claims = 1 .. Len(s.claims)
    BY <2>1, LenProperties
  <2>3. cited \in Ids \cup {NoEvidence}
    BY <2>1, <2>2, StackElement
  <2> QED
    BY <2>2, <2>3
<1>2. ClaimIds(k) = ClaimIds(k - 1) \cup {id}
  BY <1>1 DEF ClaimIds
<1>3. IdsOf(g.nodes) = Given(s, k - 1) \cup Introduced(s, k - 1)
  BY <1>1, IdsAt
<1>4. NoEvidence \notin Ids
  BY DEF NoEvidence, Ids, GoalId, FoundId
<1>5. Introduced(s, k) =
        Introduced(s, k - 1) \cup (IF cited \in Given(s, k - 1) \cup {NoEvidence} THEN {} ELSE {cited})
  <2>1. \A j : j \in 1 .. k <=> j \in 1 .. k - 1 \/ j = k
    BY <1>1
  <2> QED
    BY <1>1, <1>4, <2>1 DEF Introduced
<1>6. {Node(e, "evidence") : e \in Introduced(s, k)} =
        {Node(e, "evidence") : e \in Introduced(s, k - 1)} \cup new
  BY <1>3, <1>5
<1>7. {Support(c, GoalId) : c \in ClaimIds(k)} =
        {Support(c, GoalId) : c \in ClaimIds(k - 1)} \cup {Support(id, GoalId)}
  BY <1>2
<1>8. {Node(c, "claim") : c \in ClaimIds(k)} =
        {Node(c, "claim") : c \in ClaimIds(k - 1)} \cup {Node(id, "claim")}
  BY <1>2
<1>9. {Support(s.claims[j], <<"claim", j>>) : j \in {i \in 1 .. k : s.claims[i] # NoEvidence}} =
        {Support(s.claims[j], <<"claim", j>>) : j \in {i \in 1 .. k - 1 : s.claims[i] # NoEvidence}}
          \cup link
  <2>1. {i \in 1 .. k : s.claims[i] # NoEvidence} =
          {i \in 1 .. k - 1 : s.claims[i] # NoEvidence}
            \cup (IF cited = NoEvidence THEN {} ELSE {k})
    BY <1>1
  <2> QED
    BY <2>1
<1>10. WithClaim(g, k, cited) =
         [nodes |-> g.nodes \cup {Node(id, "claim")} \cup new,
          edges |-> g.edges \cup {Support(id, GoalId)} \cup link]
  BY DEF WithClaim
<1> HIDE DEF new, link, id, cited
<1>11. g.nodes \cup {Node(id, "claim")} \cup new = GraphAt(s, k).nodes
  BY <1>6, <1>8 DEF GraphAt
<1>12. g.edges \cup {Support(id, GoalId)} \cup link = GraphAt(s, k).edges
  BY <1>7, <1>9 DEF GraphAt
<1>13. GraphAt(s, k) = [nodes |-> GraphAt(s, k).nodes, edges |-> GraphAt(s, k).edges]
  BY DEF GraphAt
<1>14. WithClaim(g, k, cited) = GraphAt(s, k)
  BY <1>10, <1>11, <1>12, <1>13
<1> QED
  BY <1>14 DEF cited

LEMMA BuildIs ==
  ASSUME NEW s, Parsed(s)
  PROVE  BuildGraph(s) = WithImages(GraphAt(s, Len(s.claims)), s)
<1> DEFINE n == Len(s.claims)
<1>1. n \in Nat
  BY LenProperties DEF Parsed
<1>2. PICK G : /\ G = [i \in 0 .. n |-> Step(G, s, i)]
               /\ BuildGraph(s) = WithImages(G[n], s)
  BY <1>1, BuildSteps
<1> DEFINE Bad == {i \in 0 .. n : G[i] # GraphAt(s, i)}
<1>3. Bad = {}
  <2> SUFFICES ASSUME Bad # {} PROVE FALSE
    OBVIOUS
  <2>1. Bad \in SUBSET Nat
    BY <1>1
  <2>2. PICK k \in Bad : \A m \in Bad : k <= m
    BY <2>1, SmallestNumber
  <2>3. k \in 0 .. n /\ G[k] # GraphAt(s, k) /\ G[k] = Step(G, s, k)
    BY <1>2
  <2>4. CASE k = 0
    <3>1. ClaimIds(0) = {} /\ Introduced(s, 0) = {}
      BY DEF ClaimIds, Introduced
    <3>2. /\ {Node(c, "claim") : c \in ClaimIds(0)} = {}
          /\ {Node(e, "evidence") : e \in Introduced(s, 0)} = {}
          /\ {Support(c, GoalId) : c \in ClaimIds(0)} = {}
      BY <3>1
    <3>3. {Support(s.claims[j], <<"claim", j>>) : j \in {i \in 1 .. 0 : s.claims[i] # NoEvidence}} = {}
      OBVIOUS
    <3>4. /\ GraphAt(s, 0).nodes = {Node(GoalId, "goal")} \cup {Node(f, "fact") : f \in Facts(s)}
          /\ GraphAt(s, 0).edges = {Support(f, GoalId) : f \in Facts(s)}
      BY <3>2, <3>3 DEF GraphAt
    <3>5. GraphAt(s, 0) = [nodes |-> GraphAt(s, 0).nodes, edges |-> GraphAt(s, 0).edges]
      BY DEF GraphAt
    <3>6. Step(G, s, 0) = GraphAt(s, 0)
      BY <3>4, <3>5 DEF Step, Facts
    <3> QED
      BY <2>3, <2>4, <3>6
  <2>5. CASE k # 0
    <3>1. k \in 1 .. n /\ k - 1 \in 0 .. n /\ k - 1 < k
      BY <1>1, <2>3, <2>5
    <3>2. k - 1 \notin Bad
      BY <1>1, <2>2, <2>3, <3>1
    <3>3. G[k - 1] = GraphAt(s, k - 1)
      BY <3>1, <3>2
    <3>4. Step(G, s, k) = GraphAt(s, k)
      BY <2>5, <3>1, <3>3, StepAdds DEF Step
    <3> QED
      BY <2>3, <3>4
  <2> QED
    BY <2>4, <2>5
<1>4. n \in 0 .. n
  BY <1>1
<1> QED
  BY <1>2, <1>3, <1>4

-----------------------------------------------------------------------------
(* Which claims are grounded.                                              *)

LEMMA IdsFinite == IsFiniteSet(Ids)
<1>1. MaxFacts \in Nat /\ MaxClaims \in Nat /\ MaxAttachments \in Nat
  BY BoundAssumption
<1>2. ASSUME NEW x, NEW n \in Nat PROVE IsFiniteSet({x} \X (1 .. n))
  <2>1. IsFiniteSet(1 .. n)
    BY FS_Interval
  <2>2. IsFiniteSet({x})
    BY FS_Singleton
  <2> QED
    BY <2>1, <2>2, FS_Product
<1>3. /\ IsFiniteSet({"fact"} \X (1 .. 2 * MaxFacts))
      /\ IsFiniteSet({"claim"} \X (1 .. MaxClaims))
      /\ IsFiniteSet({"attachment"} \X (1 .. MaxAttachments))
  <2>1. 2 * MaxFacts \in Nat
    BY <1>1
  <2>2. IsFiniteSet({"fact"} \X (1 .. 2 * MaxFacts))
    BY <1>2, <2>1
  <2>3. IsFiniteSet({"claim"} \X (1 .. MaxClaims))
    BY <1>1, <1>2
  <2>4. IsFiniteSet({"attachment"} \X (1 .. MaxAttachments))
    BY <1>1, <1>2
  <2> QED
    BY <2>2, <2>3, <2>4
<1>4. IsFiniteSet({GoalId, FoundId, <<"cited", 0>>})
  <2>1. IsFiniteSet({GoalId} \cup {FoundId})
    BY FS_Singleton, FS_Union
  <2>2. IsFiniteSet({GoalId} \cup {FoundId} \cup {<<"cited", 0>>})
    BY <2>1, FS_Singleton, FS_Union
  <2>3. {GoalId, FoundId, <<"cited", 0>>} = {GoalId} \cup {FoundId} \cup {<<"cited", 0>>}
    OBVIOUS
  <2> QED
    BY <2>2, <2>3
<1> QED
  BY <1>3, <1>4, FS_Union DEF Ids

Seeds(g) == IdsOf(OfKind(g, {"fact", "evidence"}))
GainIn(g) == [S \in SUBSET IdsOf(g.nodes) |-> Gain(g, S)]

(* The fixpoint of the validator is the least set it may return.           *)
LEMMA GroundedIsLeast ==
  ASSUME NEW g, IsGraph(g)
  PROVE  /\ Grounded(g) = Closure(IdsOf(g.nodes), GainIn(g), Seeds(g))
         /\ Grounded(g) \in Closed(IdsOf(g.nodes), GainIn(g), Seeds(g))
         /\ \A T \in Closed(IdsOf(g.nodes), GainIn(g), Seeds(g)) : Grounded(g) \subseteq T
<1> DEFINE U == IdsOf(g.nodes)
           Grows(G) == G = [S \in SUBSET U |->
                              IF Gain(g, S) \subseteq S THEN S ELSE G[S \cup Gain(g, S)]]
           Grow == CHOOSE G : Grows(G)
<1>1. IsFiniteSet(U)
  <2>1. U \subseteq Ids
    BY DEF IsGraph, IdsOf, IdOfNode, NodeObjects
  <2> QED
    BY <2>1, IdsFinite, FS_Subset
<1>2. Seeds(g) \in SUBSET U
  BY DEF Seeds, IdsOf, OfKind
<1>3. Monotone(U, GainIn(g))
  <2>1. \A S : Gain(g, S) \in SUBSET U
    BY DEF Gain, IdsOf, OfKind
  <2>2. \A S, T : S \subseteq T => Gain(g, S) \subseteq Gain(g, T)
    BY DEF Gain, IdsOf
  <2> QED
    BY <2>1, <2>2 DEF Monotone, GainIn
<1>4. \A G : GrowsBy(G, U, GainIn(g)) <=> Grows(G)
  BY DEF GrowsBy, GainIn
<1>5. \E G : GrowsBy(G, U, GainIn(g))
  BY <1>3, GrowthExists
<1>6. Grows(Grow)
  <2> HIDE DEF Grows
  <2> QED
    BY <1>4, <1>5
<1>7. Grounded(g) = Grow[Seeds(g)]
  BY DEF Grounded, Seeds
<1> HIDE DEF Grow, Grows
<1>8. GrowsBy(Grow, U, GainIn(g))
  BY <1>4, <1>6
<1>9. Grounded(g) = Closure(U, GainIn(g), Seeds(g))
  BY <1>1, <1>2, <1>3, <1>7, <1>8, GrowsToClosure
<1>10. Grounded(g) \in Closed(U, GainIn(g), Seeds(g))
  BY <1>2, <1>3, <1>9, ClosureClosed
<1>11. \A T \in Closed(U, GainIn(g), Seeds(g)) : Grounded(g) \subseteq T
  BY <1>9 DEF Closure
<1> QED
  BY <1>9, <1>10, <1>11

(* What a graph that was built from s keeps, repaired or not.              *)
Stands(g, s) ==
  /\ IsGraph(g)
  /\ Goals(g) # {} /\ GoalId \in IdsOf(g.nodes)
  /\ Violations(g) = {}
  /\ IdsOf(OfKind(g, {"claim"})) = ClaimIds(Len(s.claims))
  /\ Facts(s) \cup Introduced(s, Len(s.claims)) \subseteq Seeds(g)
  /\ Seeds(g) \subseteq Facts(s) \cup Introduced(s, Len(s.claims)) \cup Images(s) \cup {FoundId}
  /\ \A i \in 1 .. Len(s.claims) :
       Sources(g, {<<"claim", i>>}) =
         IF s.claims[i] = NoEvidence THEN {} ELSE {s.claims[i]}

(* Claims of s that stand on nothing but the goal and each other.          *)
BareIn(s, B) ==
  \A i \in B :
    /\ s.claims[i] \in {NoEvidence, GoalId} \cup ({"claim"} \X B)
    /\ \A j \in 1 .. i - 1 : s.claims[j] # <<"claim", i>>

(* The edges of a built graph join nodes that it has.                      *)
LEMMA EdgesJoinNodes ==
  ASSUME NEW s, Parsed(s)
  PROVE  LET n == Len(s.claims)
             g == GraphAt(s, n)
         IN  /\ g.edges \subseteq Edges
             /\ \A e \in g.edges : {e.src, e.dst} \subseteq Given(s, n) \cup Introduced(s, n)
<1> DEFINE n == Len(s.claims)
           K == Given(s, n) \cup Introduced(s, n)
<1>1. n \in Nat /\ K \subseteq Ids /\ GoalId \in Ids /\ NodeIds = Ids
  <2>1. Len(s.claims) \in Nat
    BY LenProperties DEF Parsed
  <2> QED
    BY <2>1, GivenKnown, NodesKnown
<1>2. \A a, b \in Ids : a # b => Support(a, b) \in Edges
  BY <1>1 DEF Support, Edges, PatchEdges
<1>3. \A a, b : Support(a, b).src = a /\ Support(a, b).dst = b
  BY DEF Support
<1>4. ASSUME NEW f \in Facts(s)
      PROVE  Support(f, GoalId) \in Edges /\ {f, GoalId} \subseteq K
  <2>1. {f, GoalId} \subseteq K
    BY DEF Given
  <2>2. f # GoalId
    BY DEF Facts, GoalId
  <2> QED
    BY <1>1, <1>2, <2>1, <2>2
<1>5. ASSUME NEW c \in ClaimIds(n)
      PROVE  Support(c, GoalId) \in Edges /\ {c, GoalId} \subseteq K
  <2>1. {c, GoalId} \subseteq K
    BY DEF Given
  <2>2. c # GoalId
    BY DEF ClaimIds, GoalId
  <2> QED
    BY <1>1, <1>2, <2>1, <2>2
<1>6. ASSUME NEW j \in 1 .. n, s.claims[j] # NoEvidence
      PROVE  /\ Support(s.claims[j], <<"claim", j>>) \in Edges
             /\ {s.claims[j], <<"claim", j>>} \subseteq K
  <2>1. s.claims[j] \in Ids /\ s.claims[j] # <<"claim", j>>
    <3>1. s.claims \in Seq(Ids \cup {NoEvidence}) /\ DOMAIN s.claims = 1 .. n
      BY LenProperties DEF Parsed
    <3>2. s.claims[j] \in Ids \cup {NoEvidence}
      BY <3>1, StackElement
    <3> QED
      BY <1>6, <3>2 DEF Parsed
  <2>2. <<"claim", j>> \in K
    BY DEF Given, ClaimIds
  <2>3. s.claims[j] \in K
    <3>1. CASE s.claims[j] \in Given(s, j - 1)
      <4>1. ClaimIds(j - 1) \subseteq ClaimIds(n)
        BY <1>1 DEF ClaimIds
      <4> QED
        BY <3>1, <4>1 DEF Given
    <3>2. CASE s.claims[j] \notin Given(s, j - 1)
      BY <2>1, <3>2 DEF Introduced
    <3> QED
      BY <3>1, <3>2
  <2> QED
    BY <1>1, <1>2, <2>1, <2>2, <2>3
<1>7. GraphAt(s, n).edges =
        {Support(f, GoalId) : f \in Facts(s)} \cup {Support(c, GoalId) : c \in ClaimIds(n)}
          \cup {Support(s.claims[j], <<"claim", j>>) : j \in {i \in 1 .. n : s.claims[i] # NoEvidence}}
  BY DEF GraphAt
<1> DEFINE Joined(e) == e \in Edges /\ {e.src, e.dst} \subseteq K
<1>8. \A e \in {Support(f, GoalId) : f \in Facts(s)} : Joined(e)
  <2> HIDE DEF K
  <2> QED
    BY <1>3, <1>4
<1>9. \A e \in {Support(c, GoalId) : c \in ClaimIds(n)} : Joined(e)
  <2> HIDE DEF K
  <2> QED
    BY <1>3, <1>5
<1>10. \A e \in {Support(s.claims[j], <<"claim", j>>) : j \in {i \in 1 .. n : s.claims[i] # NoEvidence}} :
         Joined(e)
  <2> DEFINE Cited(j) == Support(s.claims[j], <<"claim", j>>)
             W == {i \in 1 .. n : s.claims[i] # NoEvidence}
  <2>1. \A j \in W : Joined(Cited(j))
    <3>1. \A j : Cited(j).src = s.claims[j] /\ Cited(j).dst = <<"claim", j>>
      BY <1>3
    <3>2. \A j \in W : Cited(j) \in Edges /\ {s.claims[j], <<"claim", j>>} \subseteq K
      BY <1>6
    <3> HIDE DEF Cited, W, K
    <3> QED
      BY <3>1, <3>2
  <2> HIDE DEF Joined, W
  <2>2. \A e \in {Cited(j) : j \in W} : Joined(e)
    <3> HIDE DEF Cited
    <3> QED
      BY <2>1
  <2> QED
    BY <2>2 DEF W
<1> HIDE DEF Joined, K
<1>11. \A e \in GraphAt(s, n).edges : Joined(e)
  BY <1>7, <1>8, <1>9, <1>10
<1> QED
  BY <1>11 DEF Joined, K

LEMMA BuildStands ==
  ASSUME NEW s, Parsed(s)
  PROVE  Stands(BuildGraph(s), s)
<1> DEFINE n == Len(s.claims)
           K == Given(s, n) \cup Introduced(s, n)
           g == GraphAt(s, n)
           A == Images(s) \ K
           ns == g.nodes \cup {Node(a, "evidence") : a \in A}
           h == BuildGraph(s)
<1>1. /\ n \in Nat /\ K \subseteq Ids /\ GoalId \in Ids /\ Images(s) \subseteq Ids
      /\ Facts(s) \subseteq Ids /\ ClaimIds(n) \subseteq Ids /\ Introduced(s, n) \subseteq Ids
  <2>1. Len(s.claims) \in Nat
    BY LenProperties DEF Parsed
  <2> QED
    BY <2>1, GivenKnown DEF Given
<1>2. h = [nodes |-> ns, edges |-> g.edges]
  <2>1. n \in 0 .. n
    BY <1>1
  <2>2. IdsOf(g.nodes) = K
    BY <2>1, IdsAt
  <2>3. h = [g EXCEPT !.nodes = @ \cup {Node(a, "evidence") : a \in A}]
    BY <2>2, BuildIs DEF WithImages
  <2>4. g = [nodes |-> g.nodes, edges |-> g.edges]
    BY DEF GraphAt
  <2> HIDE DEF h, g, A
  <2> QED
    BY <2>3, <2>4
<1>3. ns = {Node(GoalId, "goal")} \cup {Node(f, "fact") : f \in Facts(s)}
             \cup {Node(c, "claim") : c \in ClaimIds(n)}
             \cup {Node(e, "evidence") : e \in Introduced(s, n) \cup A}
  BY DEF GraphAt
<1>4. A \subseteq Ids
  BY <1>1
<1>5. g.edges \subseteq Edges /\ \A e \in g.edges : {e.src, e.dst} \subseteq K
  BY EdgesJoinNodes
<1>6. \A e \in g.edges : e.kind = "supports"
  BY DEF GraphAt, Support
<1>7. ASSUME NEW i \in 1 .. n
      PROVE  {e.src : e \in {d \in g.edges : d.kind = "supports" /\ d.dst \in {<<"claim", i>>}}} =
               IF s.claims[i] = NoEvidence THEN {} ELSE {s.claims[i]}
  <2>1. GoalId # <<"claim", i>>
    BY DEF GoalId
  <2> DEFINE Cited(j) == Support(s.claims[j], <<"claim", j>>)
             W == {k \in 1 .. n : s.claims[k] # NoEvidence}
             M == {e \in g.edges : e.dst = <<"claim", i>>}
  <2>2. g.edges = {Support(f, GoalId) : f \in Facts(s)} \cup {Support(c, GoalId) : c \in ClaimIds(n)}
                    \cup {Cited(j) : j \in W}
    BY DEF GraphAt
  <2>3. /\ \A f : Support(f, GoalId).dst = GoalId
        /\ \A j : Cited(j).dst = <<"claim", j>> /\ Cited(j).src = s.claims[j]
    BY DEF Support
  <2>4. \A j \in W : Cited(j).dst = <<"claim", i>> <=> j = i
    <3> HIDE DEF Cited, W
    <3> QED
      BY <2>3
  <2> HIDE DEF Cited, W, g
  <2>5. M = {Cited(j) : j \in W \cap {i}}
    BY <2>1, <2>2, <2>3, <2>4
  <2>6. {d \in g.edges : d.kind = "supports" /\ d.dst \in {<<"claim", i>>}} = M
    BY <1>6
  <2>7. W \cap {i} = IF s.claims[i] = NoEvidence THEN {} ELSE {i}
    BY DEF W
  <2>8. {e.src : e \in M} = IF s.claims[i] = NoEvidence THEN {} ELSE {s.claims[i]}
    <3> HIDE DEF M
    <3> QED
      BY <2>3, <2>5, <2>7
  <2> QED
    BY <2>6, <2>8
<1>8. /\ h.nodes = ns /\ h.edges = g.edges
      /\ \A e \in h.edges : e.kind = "supports"
      /\ \A i \in 1 .. n : Sources(h, {<<"claim", i>>}) =
                            IF s.claims[i] = NoEvidence THEN {} ELSE {s.claims[i]}
  <2>1. h.nodes = ns /\ h.edges = g.edges
    <3> HIDE DEF h, ns, g
    <3> QED
      BY <1>2
  <2> HIDE DEF h, ns, g
  <2> QED
    BY <1>6, <1>7, <2>1 DEF Sources
<1> HIDE DEF ns, g, h, A
<1>9. ns \subseteq NodeObjects /\ IdsOf(ns) = K \cup A
  BY <1>1, <1>3, <1>4, NodesKnown DEF IdsOf, Given
<1>10. /\ OfKind(h, {"goal"}) # {}
       /\ IdsOf(OfKind(h, {"claim"})) = ClaimIds(n)
       /\ Seeds(h) = Facts(s) \cup Introduced(s, n) \cup A
  <2>1. \A x \in ns : KindOfNode[x] = "goal" <=> x = Node(GoalId, "goal")
    BY <1>1, <1>3, <1>4, NodesKnown
  <2>2. \A x \in ns : KindOfNode[x] = "claim" <=> x \in {Node(c, "claim") : c \in ClaimIds(n)}
    BY <1>1, <1>3, <1>4, NodesKnown
  <2>3. \A x \in ns : KindOfNode[x] \in {"fact", "evidence"} <=>
          x \in {Node(f, "fact") : f \in Facts(s)}
                 \cup {Node(e, "evidence") : e \in Introduced(s, n) \cup A}
    BY <1>1, <1>3, <1>4, NodesKnown
  <2>4. Node(GoalId, "goal") \in OfKind(h, {"goal"})
    BY <1>3, <1>8, <2>1 DEF OfKind
  <2>5. OfKind(h, {"claim"}) = {Node(c, "claim") : c \in ClaimIds(n)}
    BY <1>3, <1>8, <2>2 DEF OfKind
  <2>6. OfKind(h, {"fact", "evidence"}) =
          {Node(f, "fact") : f \in Facts(s)} \cup {Node(e, "evidence") : e \in Introduced(s, n) \cup A}
    BY <1>3, <1>8, <2>3 DEF OfKind
  <2>7. IdsOf(OfKind(h, {"claim"})) = ClaimIds(n)
    BY <1>1, <2>5, NodesKnown DEF IdsOf
  <2>8. Seeds(h) = Facts(s) \cup Introduced(s, n) \cup A
    BY <1>1, <1>4, <2>6, NodesKnown DEF IdsOf, Seeds
  <2> QED
    BY <2>4, <2>7, <2>8
<1>11. IsGraph(h)
  <2>1. h \in [nodes : SUBSET NodeObjects, edges : SUBSET Edges]
    BY <1>2, <1>5, <1>9
  <2>2. Dangling(h.nodes, h.edges) = {}
    BY <1>5, <1>8, <1>9 DEF Dangling, IdsOf
  <2> QED
    BY <2>1, <2>2 DEF IsGraph
<1>12. Violations(h) = {}
  BY <1>8 DEF Violations
<1>13. GoalId \in IdsOf(h.nodes)
  BY <1>8, <1>9 DEF Given
<1> QED
  BY <1>8, <1>10, <1>11, <1>12, <1>13 DEF Stands, Goals, A, h

(* Claims are ungrounded iff some stand on nothing but the goal and each   *)
(* other.                                                                  *)
LEMMA UngroundedMeans ==
  ASSUME NEW g, NEW s, Parsed(s), Stands(g, s)
  PROVE  Ungrounded(g) # {} <=> \E B \in SUBSET DOMAIN s.claims : B # {} /\ BareIn(s, B)
<1> DEFINE n == Len(s.claims)
           U == IdsOf(g.nodes)
           GG == Grounded(g)
<1>1. /\ n \in Nat /\ DOMAIN s.claims = 1 .. n
      /\ \A i \in 1 .. n : s.claims[i] \in Ids \cup {NoEvidence} /\ s.claims[i] # <<"claim", i>>
  <2>1. s.claims \in Seq(Ids \cup {NoEvidence})
    BY DEF Parsed
  <2> QED
    BY <2>1, LenProperties, StackElement DEF Parsed
<1>2. Ungrounded(g) = ClaimIds(n) \ GG
  BY DEF Ungrounded, Stands
<1>3. \A i : <<"claim", i>> \in ClaimIds(n) <=> i \in 1 .. n
  BY DEF ClaimIds
<1>4. /\ GG \in SUBSET U /\ Seeds(g) \subseteq GG /\ Gain(g, GG) \subseteq GG
      /\ \A T \in SUBSET U : Seeds(g) \subseteq T /\ Gain(g, T) \subseteq T => GG \subseteq T
  BY GroundedIsLeast DEF Closed, GainIn, Stands
<1>5. \A T, i : i \in 1 .. n =>
        (<<"claim", i>> \in Gain(g, T) <=> s.claims[i] # NoEvidence /\ s.claims[i] \in T)
  <2>1. \A T, i : i \in 1 .. n =>
          (<<"claim", i>> \in Gain(g, T) <=> Sources(g, {<<"claim", i>>}) \cap T # {})
    <3>1. \A i \in 1 .. n : \E x \in OfKind(g, {"claim"}) : IdOfNode[x] = <<"claim", i>>
      <4>1. IdsOf(OfKind(g, {"claim"})) = ClaimIds(n)
        BY DEF Stands
      <4> QED
        BY <1>3, <4>1 DEF IdsOf
    <3> QED
      BY <3>1 DEF Gain, IdsOf
  <2>2. \A i \in 1 .. n : Sources(g, {<<"claim", i>>}) =
                          IF s.claims[i] = NoEvidence THEN {} ELSE {s.claims[i]}
    BY DEF Stands
  <2> SUFFICES ASSUME NEW T, NEW i \in 1 .. n
               PROVE  <<"claim", i>> \in Gain(g, T) <=> s.claims[i] # NoEvidence /\ s.claims[i] \in T
    OBVIOUS
  <2>3. <<"claim", i>> \in Gain(g, T) <=> Sources(g, {<<"claim", i>>}) \cap T # {}
    BY <2>1
  <2>4. Sources(g, {<<"claim", i>>}) = IF s.claims[i] = NoEvidence THEN {} ELSE {s.claims[i]}
    BY <2>2
  <2> QED
    BY <2>3, <2>4
<1>6. \A T : Gain(g, T) \subseteq ClaimIds(n) /\ Gain(g, T) \subseteq U
  <2>1. \A T : Gain(g, T) \subseteq IdsOf(OfKind(g, {"claim"}))
    BY DEF Gain, IdsOf
  <2>2. IdsOf(OfKind(g, {"claim"})) \subseteq U
    BY DEF IdsOf, OfKind
  <2> QED
    BY <2>1, <2>2 DEF Stands
<1>7. Seeds(g) \subseteq U
  BY DEF Seeds, IdsOf, OfKind
<1>8. /\ Facts(s) \cup Introduced(s, n) \subseteq Seeds(g)
      /\ Seeds(g) \subseteq Facts(s) \cup Introduced(s, n) \cup Images(s) \cup {FoundId}
  BY DEF Stands
<1>9. \A i, j \in 1 .. n : <<"claim", i>> \in Given(s, j - 1) <=> i < j
  BY <1>1 DEF Given, Facts, ClaimIds, GoalId
<1>10. \A i \in 1 .. n :
         <<"claim", i>> \in Introduced(s, n) <=> \E j \in 1 .. i - 1 : s.claims[j] = <<"claim", i>>
  <2> SUFFICES ASSUME NEW i \in 1 .. n
               PROVE  <<"claim", i>> \in Introduced(s, n) <=>
                        \E j \in 1 .. i - 1 : s.claims[j] = <<"claim", i>>
    OBVIOUS
  <2>1. <<"claim", i>> \in Ids
    <3>1. ClaimIds(n) \subseteq Ids
      BY <1>1, GivenKnown DEF Given
    <3> QED
      BY <1>3, <3>1
  <2>2. \A j : j \in 1 .. i - 1 <=> j \in 1 .. n /\ j < i
    BY <1>1
  <2>3. \A j \in 1 .. n : s.claims[j] = <<"claim", i>> => j # i
    BY <1>1
  <2>4. <<"claim", i>> \in Introduced(s, n) <=>
          \E j \in 1 .. n : s.claims[j] = <<"claim", i>> /\ ~(i < j)
    BY <1>9, <2>1 DEF Introduced
  <2>5. \A j \in 1 .. n : ~(i < j) <=> j < i \/ j = i
    BY <1>1
  <2> QED
    BY <2>2, <2>3, <2>4, <2>5
<1> HIDE DEF GG, U, n
<1>11. ASSUME NEW B \in SUBSET (1 .. n), B # {}, BareIn(s, B)
       PROVE  Ungrounded(g) # {}
  <2> DEFINE Out == ({"claim"} \X B) \cup {GoalId}
             T == U \ Out
  <2>0. \A x \in Out : x = GoalId \/ \E i \in B : x = <<"claim", i>>
    <3>1. ASSUME NEW x \in {"claim"} \X B PROVE \E i \in B : x = <<"claim", i>>
      <4>1. x[2] \in B /\ x = <<"claim", x[2]>>
        OBVIOUS
      <4> QED
        BY <4>1
    <3> QED
      BY <3>1
  <2>1. Seeds(g) \cap Out = {}
    <3>1. GoalId \notin Seeds(g)
      <4>1. GoalId \notin Introduced(s, n)
        BY DEF Introduced, Given
      <4> QED
        BY <1>8, <4>1 DEF GoalId, FoundId, Facts, Images
    <3>2. ASSUME NEW i \in B PROVE <<"claim", i>> \notin Seeds(g)
      <4>1. <<"claim", i>> \notin Introduced(s, n)
        BY <1>10, <1>11 DEF BareIn
      <4> QED
        BY <1>8, <4>1 DEF FoundId, Facts, Images
    <3> HIDE DEF Out
    <3> QED
      BY <2>0, <3>1, <3>2
  <2>2. Gain(g, T) \cap Out = {}
    <3>1. GoalId \notin ClaimIds(n)
      BY DEF GoalId, ClaimIds
    <3>2. ASSUME NEW i \in B PROVE <<"claim", i>> \notin Gain(g, T)
      <4>1. i \in 1 .. n
        BY <1>11
      <4>2. s.claims[i] \in {NoEvidence, GoalId} \cup ({"claim"} \X B)
        BY <1>11 DEF BareIn
      <4>3. s.claims[i] = NoEvidence \/ s.claims[i] \in Out
        BY <4>2
      <4> HIDE DEF Out
      <4>4. ~(s.claims[i] # NoEvidence /\ s.claims[i] \in T)
        BY <4>3
      <4> HIDE DEF T
      <4> QED
        BY <1>5, <4>1, <4>4
    <3> HIDE DEF Out, T
    <3> QED
      BY <1>6, <2>0, <3>1, <3>2
  <2>3. GG \subseteq T
    BY <1>4, <1>6, <1>7, <2>1, <2>2
  <2>4. PICK i \in B : <<"claim", i>> \notin GG
    BY <1>11, <2>3
  <2> QED
    BY <1>2, <1>3, <2>4
<1>12. ASSUME Ungrounded(g) # {}
       PROVE  \E B \in SUBSET (1 .. n) : B # {} /\ BareIn(s, B)
  <2> DEFINE B == {i \in 1 .. n : <<"claim", i>> \notin GG}
  <2>1. B # {}
    BY <1>2, <1>12 DEF ClaimIds
  <2>2. ASSUME NEW i \in B PROVE s.claims[i] \in {NoEvidence, GoalId} \cup ({"claim"} \X B)
    <3> DEFINE c == s.claims[i]
    <3>1. SUFFICES ASSUME c # NoEvidence, c # GoalId PROVE c \in {"claim"} \X B
      OBVIOUS
    <3>2. c \in Ids /\ c \notin GG
      BY <1>1, <1>4, <1>5, <3>1
    <3>3. c \notin Facts(s) /\ c \notin Introduced(s, n)
      BY <1>4, <1>8, <3>2
    <3>4. c \in Given(s, i - 1)
      BY <3>2, <3>3 DEF Introduced
    <3>5. c \in ClaimIds(i - 1)
      BY <3>1, <3>3, <3>4 DEF Given
    <3>6. PICK k \in 1 .. i - 1 : c = <<"claim", k>>
      BY <3>5 DEF ClaimIds
    <3>7. k \in 1 .. n
      BY <1>1, <3>6
    <3> QED
      BY <3>2, <3>6, <3>7
  <2>3. ASSUME NEW i \in B, NEW j \in 1 .. i - 1 PROVE s.claims[j] # <<"claim", i>>
    BY <1>4, <1>8, <1>10, <2>3
  <2>4. BareIn(s, B)
    <3> HIDE DEF B
    <3> QED
      BY <2>2, <2>3 DEF BareIn
  <2> QED
    BY <2>1, <2>4
<1> QED
  BY <1>1, <1>11, <1>12

(* What the search tool finds is new evidence for the goal, for no claim.  *)
LEMMA PatchStands ==
  ASSUME NEW g, NEW s, Parsed(s), Stands(g, s)
  PROVE  Stands(Patched(g, SearchPatch), s)
<1> DEFINE h == Patched(g, SearchPatch)
           x == [Node(FoundId, "evidence") EXCEPT !.found = TRUE]
           e == Support(FoundId, GoalId)
<1>1. /\ x \in NodeObjects /\ x.id = FoundId /\ x.kind = "evidence"
      /\ IdOfNode[x] = FoundId /\ KindOfNode[x] = "evidence"
  BY DEF Node, NodeObjects, Ids, IdOfNode, KindOfNode
<1>2. /\ e \in Edges /\ e.src = FoundId /\ e.dst = GoalId /\ e.kind = "supports"
  BY NodesKnown DEF Support, Edges, PatchEdges, FoundId, GoalId, Ids
<1>3. /\ h.nodes = g.nodes \cup {x} /\ h.edges = g.edges \cup {e}
      /\ h = [nodes |-> h.nodes, edges |-> h.edges]
  BY DEF Patched, SearchPatch
<1>4. /\ IsGraph(g) /\ g.nodes \subseteq NodeObjects /\ g.edges \subseteq Edges
      /\ Dangling(g.nodes, g.edges) = {}
  BY DEF Stands, IsGraph
<1> HIDE DEF h, x, e
<1>5. \A kinds : OfKind(h, kinds) = OfKind(g, kinds) \cup (IF "evidence" \in kinds THEN {x} ELSE {})
  BY <1>1, <1>3 DEF OfKind
<1>6. /\ Goals(h) = Goals(g) /\ OfKind(h, {"claim"}) = OfKind(g, {"claim"})
      /\ OfKind(h, {"fact", "evidence"}) = OfKind(g, {"fact", "evidence"}) \cup {x}
  BY <1>5 DEF Goals
<1>7. Seeds(h) = Seeds(g) \cup {FoundId}
  BY <1>1, <1>6 DEF Seeds, IdsOf
<1>8. IsGraph(h)
  <2>1. h \in [nodes : SUBSET NodeObjects, edges : SUBSET Edges]
    BY <1>1, <1>2, <1>3, <1>4
  <2>2. GoalId \in IdsOf(g.nodes)
    BY DEF Stands
  <2>3. Dangling(h.nodes, h.edges) = {}
    BY <1>1, <1>2, <1>3, <1>4, <2>2 DEF Dangling, IdsOf
  <2> QED
    BY <2>1, <2>3 DEF IsGraph
<1>9. Violations(h) = {}
  BY <1>2, <1>3 DEF Stands, Violations
<1>10. \A i \in 1 .. Len(s.claims) : Sources(h, {<<"claim", i>>}) = Sources(g, {<<"claim", i>>})
  <2>1. \A i : e.dst # <<"claim", i>>
    BY <1>2 DEF GoalId
  <2> QED
    BY <1>3, <2>1 DEF Sources
<1>11. Stands(h, s)
  <2>1. GoalId \in IdsOf(h.nodes)
    BY <1>3 DEF Stands, IdsOf
  <2> QED
    BY <2>1, <1>6, <1>7, <1>8, <1>9, <1>10 DEF Stands
<1> QED
  BY <1>11 DEF h

-----------------------------------------------------------------------------
(* The inductive invariant.                                                *)

Records ==
  spec \in [facts : 0 .. 2 * MaxFacts, claims : Sequences(Citations, MaxClaims),
            attachments : 0 .. MaxAttachments]

(* Facts of the images come on top of those of the text, once.             *)
Reading ==
  /\ stage \in {"parse", "vision"} => spec.facts <= MaxFacts
  /\ stage = "parse" => attempts = 0
  /\ stage = "vision" => attempts < MaxAttempts

(* Once there is a graph, it is the one built of the goal, but for what    *)
(* the search tool found.                                                  *)
Standing ==
  stage \in {"repair", "synthesize", "done"} => Parsed(spec) /\ Stands(graph, spec)

(* The verdict is of the graph the answer is about.                        *)
VerdictCurrent == stage \in {"synthesize", "done"} => ready = AnswerReady(graph)

Answered ==
  /\ answer.status \in {"none", "ok", "partial"}
  /\ answer.status # "none" => stage = "done"
  /\ answer.status = "ok" => ready
  /\ answer.status = "partial" => ~ready

IInv == TypeOK /\ Records /\ Reading /\ Standing /\ VerdictCurrent /\ Answered

LEMMA ClaimSequences ==
  ASSUME NEW S, NEW n \in Nat, NEW c \in Sequences(S, n)
  PROVE  /\ c \in Seq(S) /\ Len(c) \in 0 .. n /\ DOMAIN c = 1 .. Len(c)
<1>1. PICK k \in 0 .. n : c \in [1 .. k -> S]
  BY DEF Sequences
<1>2. k \in Nat /\ c \in Seq(S) /\ Len(c) = k
  BY <1>1
<1> QED
  BY <1>1, <1>2

LEMMA InitIInv == Init => IInv
<1> SUFFICES ASSUME Init PROVE IInv
  OBVIOUS
<1>1. MaxFacts \in Nat /\ MaxClaims \in Nat /\ MaxAttachments \in Nat
      /\ MaxAttempts \in Nat /\ MaxCycles \in Nat /\ MaxAttempts > 0
  BY BoundAssumption
<1>2. << >> \in Sequences(Citations, MaxClaims)
  <2>1. << >> \in [1 .. 0 -> Citations] /\ 0 \in 0 .. MaxClaims
    BY <1>1
  <2> QED
    BY <2>1 DEF Sequences
<1>3. IsGraph(EmptyGraph)
  BY DEF IsGraph, EmptyGraph, Dangling
<1>4. NoSpec \in [facts : 0 .. 2 * MaxFacts, claims : Sequences(Citations, MaxClaims),
                  attachments : 0 .. MaxAttachments]
  BY <1>1, <1>2 DEF NoSpec
<1>5. TypeOK
  <2>1. /\ spec.facts \in 0 .. 2 * MaxFacts /\ spec.attachments \in 0 .. MaxAttachments
        /\ spec.claims \in Sequences(Citations, MaxClaims)
    <3>1. spec = NoSpec
      BY DEF Init
    <3> QED
      BY <1>4, <3>1
  <2>2. /\ stage = "parse" /\ repairs \in BOOLEAN /\ ready \in BOOLEAN
        /\ attempts \in 0 .. MaxAttempts /\ cycles \in 0 .. MaxCycles
    <3>1. attempts = 0 /\ cycles = 0 /\ stage = "parse" /\ repairs \in BOOLEAN /\ ready = FALSE
      BY Zenon DEF Init
    <3>2. attempts \in 0 .. MaxAttempts /\ cycles \in 0 .. MaxCycles
      BY <1>1, <3>1
    <3>3. ready \in BOOLEAN
      BY Zenon, <3>1
    <3> QED
      BY Zenon, <3>1, <3>2, <3>3
  <2>3. IsGraph(graph) /\ IsGraph(initial)
    <3>1. graph = EmptyGraph /\ initial = EmptyGraph
      BY DEF Init
    <3> QED
      BY <1>3, <3>1
  <2> QED
    BY <2>1, <2>2, <2>3 DEF TypeOK
<1> QED
  BY <1>1, <1>4, <1>5 DEF Init, IInv, Records, Reading, Standing, VerdictCurrent, Answered, NoSpec

(* The loop drops the candidate or keeps the graph with the patch.         *)
LEMMA LoopSteps ==
  ASSUME cycles \in 0 .. MaxCycles, Loop!Next
  PROVE  /\ graph' = graph \/ graph' = Patched(graph, SearchPatch)
         /\ initial' = initial
         /\ cycles' \in 0 .. MaxCycles
<1>1. MaxCycles \in Nat
  BY BoundAssumption
<1>2. CASE Loop!Complete
  BY <1>2 DEF Loop!Complete
<1>3. CASE Loop!NoPatch
  BY <1>1, <1>3 DEF Loop!NoPatch, Loop!Repairing
<1>4. CASE Loop!LoopDetected
  BY <1>4 DEF Loop!LoopDetected
<1>5. CASE Loop!TryPatch(SearchPatch)
  BY <1>1, <1>5 DEF Loop!TryPatch, Loop!Repairing, Loop!Patched, Patched
<1>6. CASE Loop!PatchRaises(SearchPatch)
  BY <1>6 DEF Loop!PatchRaises
<1>7. CASE Loop!BudgetExhausted
  BY <1>7 DEF Loop!BudgetExhausted
<1> QED
  BY <1>2, <1>3, <1>4, <1>5, <1>6, <1>7 DEF Loop!Next

LEMMA NextIInv == IInv /\ [Next]_vars => IInv'
<1> SUFFICES ASSUME IInv, [Next]_vars PROVE IInv'
  OBVIOUS
<1> USE DEF IInv
<1>0. MaxFacts \in Nat /\ MaxClaims \in Nat /\ MaxAttachments \in Nat
      /\ MaxAttempts \in Nat /\ MaxCycles \in Nat /\ MaxAttempts > 0
  BY BoundAssumption
<1>1. CASE Parse
  <2>1. PICK facts \in 0 .. MaxFacts, claims \in Sequences(Citations, MaxClaims),
             images \in 0 .. MaxAttachments :
          spec' = [facts |-> facts, claims |-> claims, attachments |-> images]
    BY <1>1 DEF Parse
  <2>2. /\ stage = "parse" /\ stage' \in {"vision", "build"}
        /\ UNCHANGED <<repairs, attempts, ready, answer, graph, initial, cycles>>
    BY <1>1 DEF Parse, loopVars
  <2>3. spec'.facts = facts /\ spec'.claims = claims /\ spec'.attachments = images
        /\ facts \in 0 .. 2 * MaxFacts /\ facts <= MaxFacts
    BY <1>0, <2>1
  <2>4. Records'
    BY <2>1, <2>3 DEF Records
  <2>5. TypeOK'
    BY <2>2, <2>3 DEF TypeOK, IsGraph
  <2> QED
    BY <1>0, <2>2, <2>3, <2>4, <2>5 DEF Reading, Standing, VerdictCurrent, Answered
<1>2. CASE VisionReturns
  <2>1. PICK facts \in 0 .. MaxFacts : spec' = [spec EXCEPT !.facts = @ + facts]
    BY <1>2 DEF VisionReturns
  <2>2. /\ stage = "vision" /\ stage' = "build"
        /\ UNCHANGED <<repairs, attempts, ready, answer, graph, initial, cycles>>
    BY <1>2 DEF VisionReturns, loopVars
  <2>3. spec.facts <= MaxFacts /\ spec.facts \in Nat
    BY <1>0, <2>2 DEF Reading, Records
  <2>4. /\ spec' = [facts |-> spec.facts + facts, claims |-> spec.claims,
                    attachments |-> spec.attachments]
        /\ spec.facts + facts \in 0 .. 2 * MaxFacts
    BY <1>0, <2>1, <2>3 DEF Records
  <2>5. Records'
    BY <2>4 DEF Records
  <2>6. TypeOK'
    BY <2>2, <2>4 DEF TypeOK, IsGraph
  <2> QED
    BY <2>2, <2>5, <2>6 DEF Reading, Standing, VerdictCurrent, Answered
<1>3. CASE VisionFails
  <2>1. /\ stage = "vision" /\ attempts' = attempts + 1
        /\ stage' = IF attempts' >= MaxAttempts THEN "build" ELSE "vision"
        /\ UNCHANGED <<repairs, spec, ready, answer, graph, initial, cycles>>
    BY <1>3 DEF VisionFails, loopVars
  <2>2. attempts \in Nat /\ attempts < MaxAttempts /\ attempts' \in 0 .. MaxAttempts
    BY <1>0, <2>1 DEF Reading, TypeOK
  <2>3. TypeOK'
    BY <2>1, <2>2 DEF TypeOK, IsGraph
  <2> QED
    BY <1>0, <2>1, <2>2, <2>3 DEF Records, Reading, Standing, VerdictCurrent, Answered
<1>4. CASE ParseRaises \/ BuildRaises \/ SynthesizeRaises
  <2>1. /\ stage \in {"parse", "build", "synthesize"} /\ stage' = "raised"
        /\ UNCHANGED <<repairs, spec, attempts, ready, answer, graph, initial, cycles>>
    BY <1>4 DEF ParseRaises, BuildRaises, SynthesizeRaises, loopVars
  <2>2. TypeOK'
    BY <2>1 DEF TypeOK, IsGraph
  <2> QED
    BY <2>1, <2>2 DEF Records, Reading, Standing, VerdictCurrent, Answered
<1>5. CASE Build
  <2>1. /\ stage = "build" /\ stage' \in {"repair", "synthesize"}
        /\ graph' = BuildGraph(spec) /\ initial' = graph' /\ ready' = AnswerReady(graph')
        /\ UNCHANGED <<repairs, spec, attempts, answer, cycles>>
        /\ \A i \in DOMAIN spec.claims : spec.claims[i] \notin {Blank, <<"claim", i>>}
    BY <1>5 DEF Build
  <2>2. Parsed(spec)
    <3> DEFINE c == spec.claims
    <3>1. /\ spec.facts \in 0 .. 2 * MaxFacts /\ spec.attachments \in 0 .. MaxAttachments
          /\ c \in Sequences(Citations, MaxClaims)
      BY DEF TypeOK
    <3>2. c \in Seq(Citations) /\ Len(c) \in 0 .. MaxClaims /\ DOMAIN c = 1 .. Len(c)
      BY <1>0, <3>1, ClaimSequences
    <3>3. \A i \in 1 .. Len(c) : c[i] \in Ids \cup {NoEvidence} /\ c[i] # <<"claim", i>>
      <4>1. \A i \in 1 .. Len(c) : c[i] \in Citations
        BY <3>2, StackElement
      <4> QED
        BY <2>1, <3>2, <4>1 DEF Citations
    <3>4. c \in Seq(Ids \cup {NoEvidence})
      <4>1. Len(c) \in Nat /\ c \in [1 .. Len(c) -> Ids \cup {NoEvidence}]
        BY <3>2, <3>3, LenProperties
      <4> QED
        BY <4>1, SeqDef
    <3> QED
      BY <1>0, <3>1, <3>2, <3>3, <3>4 DEF Parsed
  <2>3. Stands(graph', spec)
    BY <2>1, <2>2, BuildStands
  <2>4. (Parsed(spec) /\ Stands(graph, spec))'
    BY <2>1, <2>2, <2>3 DEF Parsed, Stands, IsGraph
  <2>5. IsGraph(graph') /\ ready' \in BOOLEAN
    BY <2>1, <2>3 DEF Stands, AnswerReady, Reachable
  <2>6. TypeOK'
    BY <2>1, <2>5 DEF TypeOK
  <2> QED
    BY <2>1, <2>4, <2>6 DEF Records, Reading, Standing, VerdictCurrent, Answered
<1>6. CASE Repair
  <2>1. stage = "repair" /\ Loop!Next /\ UNCHANGED <<stage, repairs, spec, attempts, ready, answer>>
    BY <1>6 DEF Repair
  <2>2. /\ graph' = graph \/ graph' = Patched(graph, SearchPatch)
        /\ initial' = initial /\ cycles' \in 0 .. MaxCycles
    BY <2>1, LoopSteps DEF TypeOK
  <2>3. Parsed(spec) /\ Stands(graph, spec)
    BY <2>1 DEF Standing
  <2>4. Stands(graph', spec)
    BY <2>2, <2>3, PatchStands
  <2>5. Standing'
    BY <2>1, <2>3, <2>4 DEF Standing
  <2>6. TypeOK'
    BY <2>1, <2>2, <2>4 DEF TypeOK, Stands
  <2> QED
    BY <2>1, <2>5, <2>6 DEF Records, Reading, VerdictCurrent, Answered
<1>7. CASE RepairReturns
  <2>1. /\ stage = "repair" /\ stage' = "synthesize" /\ ready' = AnswerReady(graph)
        /\ UNCHANGED <<repairs, spec, attempts, answer, graph, initial, cycles>>
    BY <1>7 DEF RepairReturns, loopVars
  <2>2. ready' \in BOOLEAN
    BY <2>1 DEF AnswerReady, Reachable
  <2>3. TypeOK'
    BY <2>1, <2>2 DEF TypeOK
  <2>4. VerdictCurrent'
    BY <2>1 DEF VerdictCurrent
  <2> QED
    BY <2>1, <2>3, <2>4 DEF Records, Reading, Standing, Answered
<1>8. CASE Partial \/ Synthesize
  <2>1. /\ stage = "synthesize" /\ stage' = "done"
        /\ UNCHANGED <<repairs, spec, attempts, ready, graph, initial, cycles>>
        /\ \/ ~ready /\ answer'.status = "partial"
           \/ ready /\ answer'.status = "ok"
    <3>1. CASE Partial
      BY <3>1 DEF Partial, loopVars
    <3>2. CASE Synthesize
      <4>1. PICK empty \in BOOLEAN : answer' = [status |-> "ok", empty |-> empty]
        BY <3>2 DEF Synthesize
      <4>2. answer'.status = "ok"
        BY <4>1
      <4> QED
        BY <3>2, <4>2 DEF Synthesize, loopVars
    <3> QED
      BY <1>8, <3>1, <3>2
  <2>2. TypeOK'
    BY <2>1 DEF TypeOK
  <2>3. Standing'
    BY <2>1 DEF Standing
  <2>4. VerdictCurrent'
    BY <2>1 DEF VerdictCurrent
  <2> QED
    BY <2>1, <2>2, <2>3, <2>4 DEF Records, Reading, Answered
<1>9. CASE UNCHANGED vars
  <2>1. UNCHANGED <<stage, repairs, spec, attempts, ready, answer, graph, initial, cycles>>
    BY <1>9 DEF vars, loopVars
  <2> QED
    BY <2>1 DEF TypeOK, Records, Reading, Standing, VerdictCurrent, Answered
<1> QED
  BY <1>1, <1>2, <1>3, <1>4, <1>5, <1>6, <1>7, <1>8, <1>9 DEF Next

LEMMA IInvAlways == Spec => []IInv
<1>1. Init => IInv
  BY InitIInv
<1>2. IInv /\ [Next]_vars => IInv'
  BY NextIInv
<1> QED
  BY <1>1, <1>2, PTL DEF Spec

-----------------------------------------------------------------------------
(* Theorems.                                                               *)

(* Type correctness, for every bound: the graph the loop works on never    *)
(* has a dangling edge, the attempts and cycles stay within their bounds.  *)
THEOREM ReasoningTypeCorrect == Spec => []TypeOK
<1>1. IInv => TypeOK
  BY DEF IInv
<1> QED
  BY <1>1, IInvAlways, PTL

(* The verdict before the answer and the gates of OutputVerifierUseCase    *)
(* after it agree, for any goal, any citations and any repair.             *)
THEOREM GatesAlwaysAgree == Spec => []GatesAgree
<1>1. IInv => GatesAgree
  <2> SUFFICES ASSUME IInv PROVE GatesAgree
    OBVIOUS
  <2>1. CASE answer.status \in {"ok", "partial"}
    <3>1. /\ ready = AnswerReady(graph)
          /\ answer.status = "ok" => ready
          /\ answer.status = "partial" => ~ready
          /\ Goals(graph) # {} /\ Violations(graph) = {}
      BY <2>1 DEF IInv, Answered, VerdictCurrent, Standing, Stands
    <3> QED
      BY <3>1 DEF GatesAgree, Verify, AnswerReady
  <2>2. CASE answer.status \notin {"ok", "partial"}
    BY <2>2 DEF GatesAgree
  <2> QED
    BY <2>1, <2>2
<1> QED
  BY <1>1, IInvAlways, PTL

(* The model is asked to write an answer exactly when no claims stand on   *)
(* nothing but the goal and each other and the goal is within reach.       *)
THEOREM AnswerAlwaysCoversCitedClaims == Spec => []AnswerCoversCitedClaims
<1>1. IInv => AnswerCoversCitedClaims
  <2> SUFFICES ASSUME IInv PROVE AnswerCoversCitedClaims
    OBVIOUS
  <2>1. CASE answer.status \in {"ok", "partial"}
    <3>1. /\ ready = AnswerReady(graph)
          /\ answer.status = "ok" => ready
          /\ answer.status = "partial" => ~ready
          /\ Violations(graph) = {} /\ Parsed(spec) /\ Stands(graph, spec)
      BY <2>1 DEF IInv, Answered, VerdictCurrent, Standing, Stands
    <3>2. Ungrounded(graph) # {} <=>
            \E B \in SUBSET DOMAIN spec.claims : B # {} /\ Bare(B)
      BY <3>1, UngroundedMeans DEF Bare, BareIn
    <3> QED
      BY <3>1, <3>2 DEF AnswerCoversCitedClaims, AnswerReady
  <2>2. CASE answer.status \notin {"ok", "partial"}
    BY <2>2 DEF AnswerCoversCitedClaims
  <2> QED
    BY <2>1, <2>2
<1> QED
  BY <1>1, IInvAlways, PTL
=============================================================================

---------------------------- MODULE LoopGraph ------------------------------
(***************************************************************************)
(* A Loop and its journal (domain/loop.py), its projection to a graph of   *)
(* provenance (domain/loop_graph.py), the statements by which the graph    *)
(* store writes it (adapters/ladybug_graph_store.py), and what the         *)
(* insight report, the recommender and the run diff read off a stored      *)
(* graph.                                                                  *)
(*                                                                         *)
(* A vertex id is its kind and a key; the key of a trajectory step is its  *)
(* run and its number.  Times, durations and edge payloads are left out.   *)
(***************************************************************************)
EXTENDS Integers, FiniteSets, SequencesExt

-----------------------------------------------------------------------------
(* The Loop.                                                               *)
Terminal == {"done", "failed", "retained"}

Legal == [pending   |-> {"running", "failed", "retained"},
          running   |-> {"verifying", "failed", "retained", "done"},
          verifying |-> {"done", "failed", "retained", "running"}]

(* names: the verifier of a VERIFIED event, or the failure of a FAILED     *)
(* one, when the payload has it.                                           *)
Event(kind, state, names) == [kind |-> kind, state |-> state, names |-> names]
Unnamed == "unnamed"

(* advance raises ValueError when its event is not one of these.           *)
Advances(loop, e) == loop.state \notin Terminal /\ e.state \in Legal[loop.state]

Advance(loop, e) == [loop EXCEPT !.lifecycle = Append(@, e), !.state = e.state]

Start(id, skills) ==
  Advance([id |-> id, skills |-> skills, lifecycle |-> << >>, state |-> "pending"],
          Event("started", "running", Unnamed))

-----------------------------------------------------------------------------
(* project: the vertices and the edges of a loop and its trajectory, in    *)
(* the order in which they are stored.                                     *)
Vertex(kind, key, label) == [id |-> <<kind, key>>, kind |-> kind, label |-> label]
Edge(kind, src, dst) == [kind |-> kind, src |-> src.id, dst |-> dst.id]

LoopVertex(loop) == Vertex("loop", loop.id, "loop")
IntentVertex(loop) == Vertex("intent", loop.id, "intent")
SkillVertices(loop) == [i \in DOMAIN loop.skills |-> Vertex("skill", loop.skills[i], loop.skills[i])]

(* The events that name a verifier or a failure, with what they point to.  *)
(* No event of the program has a "fixes" payload.                          *)
NamesOutcome(e) == \/ e.kind = "verified" /\ e.state = "verifying"
                   \/ e.kind = "failed" /\ e.names # Unnamed
Outcomes(loop) ==
  LET where == {i \in DOMAIN loop.lifecycle : NamesOutcome(loop.lifecycle[i])}
      nth(k) == CHOOSE i \in where : Cardinality({j \in where : j <= i}) = k
  IN  [k \in 1..Cardinality(where) |-> loop.lifecycle[nth(k)]]
OutcomeVertices(loop) ==
  [i \in DOMAIN Outcomes(loop) |->
     LET e == Outcomes(loop)[i]
     IN  Vertex(IF e.kind = "verified" THEN "verifier" ELSE "failure", e.names, e.names)]
OutcomeEdges(loop) ==
  [i \in DOMAIN Outcomes(loop) |->
     Edge(IF Outcomes(loop)[i].kind = "verified" THEN "verified_by" ELSE "learns_from",
          LoopVertex(loop), OutcomeVertices(loop)[i])]

StepVertices(loop, steps) ==
  [i \in DOMAIN steps |-> Vertex("trajectory_step", <<loop.id, i>>, steps[i])]
StepEdges(loop, steps) ==
  LET v == StepVertices(loop, steps)
      uses(i) == Edge("uses", LoopVertex(loop), v[i])
      next(i) == Edge("next", v[i - 1], v[i])
  IN  [k \in 1..(2 * Len(steps) - 1) |->  (* uses 1, uses 2, next 2, ...   *)
         LET i == k \div 2 + 1 IN IF k = 1 \/ k % 2 = 0 THEN uses(i) ELSE next(i)]

Project(loop, steps) ==
  [vertices |-> <<LoopVertex(loop), IntentVertex(loop)>> \o SkillVertices(loop)
                  \o OutcomeVertices(loop) \o StepVertices(loop, steps),
   edges    |-> <<Edge("created", IntentVertex(loop), LoopVertex(loop))>>
                  \o [i \in DOMAIN loop.skills |->
                        Edge("uses", LoopVertex(loop), SkillVertices(loop)[i])]
                  \o OutcomeEdges(loop) \o StepEdges(loop, steps)]

-----------------------------------------------------------------------------
(* The store.  MERGE creates the end of an edge that is not there yet,     *)
(* without a kind.                                                         *)
NoGraph == [vertices |-> {}, edges |-> {}]
Ids(g) == {v.id : v \in g.vertices}
Bare(id) == [id |-> id, kind |-> "null", label |-> "null"]

StoreVertex(g, v) == [g EXCEPT !.vertices = {u \in @ : u.id # v.id} \cup {v}]

(* Mutant: the edge's MERGE sets the kinds of its ends as well.            *)
StoreEdgeResets(g, e) ==
  [vertices |-> {u \in g.vertices : u.id \notin {e.src, e.dst}} \cup {Bare(e.src), Bare(e.dst)},
   edges    |-> g.edges \cup {e}]

StoreEdge(g, e) ==
  [vertices |-> g.vertices \cup {Bare(id) : id \in {e.src, e.dst} \ Ids(g)},
   edges    |-> g.edges \cup {e}]

(* store_loop_graph, one statement after the other: vertices, then edges.  *)
Writes(p) == [i \in DOMAIN p.vertices |-> <<"vertex", p.vertices[i]>>]
               \o [i \in DOMAIN p.edges |-> <<"edge", p.edges[i]>>]
Store(g, w) == IF w[1] = "vertex" THEN StoreVertex(g, w[2]) ELSE StoreEdge(g, w[2])

Neighbours(g, id) ==
  LET ends == {e.dst : e \in {f \in g.edges : f.src = id}}
  IN  {v \in g.vertices : v.id \in ends}

(* Converting a vertex without a kind raises.                              *)
Readable(vs) == \A v \in vs : v.kind # "null"

-----------------------------------------------------------------------------
(* The readers.                                                            *)
Loops(g) == {id \in Ids(g) : id[1] = "loop"}

(* _trajectory_steps_for_loop: the step vertices sorted by id, that is by  *)
(* their number; and their kinds.                                          *)
StepsOf(g, id) == {v \in Neighbours(g, id) : v.kind = "trajectory_step"}
KindsOf(g, id) ==
  LET steps == StepsOf(g, id)
      numbers == {v.id[2][2] : v \in steps}
      kind(i) == (CHOOSE v \in steps : v.id[2][2] = i).label
      rank(i) == Cardinality({j \in numbers : j <= i})
  IN  [k \in 1..Cardinality(steps) |-> LET n == CHOOSE i \in numbers : rank(i) = k IN kind(n)]

(* Mutant: the kind of the first step.                                     *)
FirstKind(g, id) == LET kinds == KindsOf(g, id) IN IF kinds = << >> THEN "none" ELSE Head(kinds)

LastKind(g, id) == LET kinds == KindsOf(g, id) IN IF kinds = << >> THEN "none" ELSE Last(kinds)

(* ReportReader.read.                                                      *)
Report(g) ==
  LET last == [id \in Loops(g) |-> LastKind(g, id)]
      judged(K) == Cardinality({id \in Loops(g) : last[id] \in K})
  IN  [total_loops          |-> Cardinality(Loops(g)),
       runs_with_score_1    |-> judged({"finish"}),
       runs_with_score_lt_1 |-> Cardinality(Loops(g)) - judged({"finish", "none"}),
       executor_failures    |-> Cardinality({v \in UNION {StepsOf(g, id) : id \in Loops(g)} :
                                               v.label = "failure"})]

(* Mutant: whatever did not fail has passed.                               *)
ScoreOfLenient(g, id) == IF LastKind(g, id) = "failure" THEN 0 ELSE 2

(* A loop's score in halves, as the recommender and the diff guess it.     *)
ScoreOf(g, id) == LET last == LastKind(g, id)
                  IN  IF last = "finish" THEN 2 ELSE IF last = "failure" THEN 0 ELSE 1

(* SandboxRecommender.recommend: the kinds of its recommendations, given   *)
(* the model it found for each run.                                        *)
Recommend(g, models) ==
  LET scores == {ScoreOf(g, id) : id \in Loops(g)}
      oneModel == Cardinality(Range(models)) = 1
      drifts == {KindsOf(g, id) : id \in Loops(g)}
      rules == [model_stable       |-> scores = {2} /\ oneModel,
                executor_gate_safe |-> scores = {2},
                undertested_model  |-> /\ Cardinality(Loops(g)) >= 2 /\ oneModel
                                       /\ Cardinality(DOMAIN models) = Cardinality(Loops(g)),
                failed_run_present |-> 0 \in scores,
                trajectory_uniform |-> Cardinality(drifts) = 1,
                trajectory_drift   |-> Cardinality(drifts) >= 2,
                all_fail           |-> 2 \notin scores]
  IN  IF Loops(g) = {} THEN {"no_data"} ELSE {k \in DOMAIN rules : rules[k]}

(* SandboxRunDiff.compare of two loops that are stored.                    *)
Compare(g, a, b) ==
  LET inA == Range(KindsOf(g, a))
      inB == Range(KindsOf(g, b))
  IN  [only_in_a    |-> inA \ inB,
       only_in_b    |-> inB \ inA,
       in_both      |-> inA \cap inB,
       score_delta  |-> ScoreOf(g, b) - ScoreOf(g, a),
       length_delta |-> Len(KindsOf(g, b)) - Len(KindsOf(g, a))]
=============================================================================

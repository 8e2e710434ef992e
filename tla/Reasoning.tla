----------------------------- MODULE Reasoning ------------------------------
(***************************************************************************)
(* From a free-text goal to an answer: ParseTaskSpecUseCase with its       *)
(* vision extraction, RunReasoningVerticalUseCase or, with the repair loop *)
(* and a search tool, RunReasoningWithRepairUseCase, and then              *)
(* SynthesizeAnswerUseCase and OutputVerifierUseCase.                      *)
(*                                                                         *)
(* The language model decides what the graph is built of: it names the     *)
(* evidence of a claim by any string, that of another node included.       *)
(* Texts are left out but for whether an answer is empty; the loop is      *)
(* module RepairLoop.                                                      *)
(***************************************************************************)
EXTENDS Naturals, Sequences, FiniteSets

CONSTANTS
  MaxFacts,     (* bound: facts parsed, and facts seen in the images       *)
  MaxClaims,    (* bound: claims parsed                                    *)
  MaxAttachments, (* bound: images given                                   *)
  MaxAttempts,  (* max(1, max_attempts) of the vision extraction           *)
  MaxCycles     (* max(1, max_cycles) of the repair loop                   *)

ASSUME BoundAssumption ==
  /\ {MaxFacts, MaxClaims, MaxAttachments} \subseteq Nat
  /\ {MaxAttempts, MaxCycles} \subseteq Nat \ {0}

(* Node ids: "goal", fact{i}, claim{i}, attachment{i}, ev_goal, and one a  *)
(* model may cite that names nothing.                                      *)
GoalId == <<"goal", 0>>
FoundId == <<"ev_goal", 0>>
Ids ==
  {GoalId, FoundId, <<"cited", 0>>}
    \cup ({"fact"} \X (1 .. 2 * MaxFacts))
    \cup ({"claim"} \X (1 .. MaxClaims))
    \cup ({"attachment"} \X (1 .. MaxAttachments))

(* What a claim may cite: nothing, a blank string, or an id.               *)
NoEvidence == <<"none", 0>>
Blank == <<"", 0>>
Citations == Ids \cup {NoEvidence, Blank}

(* Nodes are told apart by when they were made, too.                       *)
NodeObjects == [id : Ids, kind : {"goal", "fact", "claim", "evidence"}, found : BOOLEAN]
IdOfNode == [n \in NodeObjects |-> n.id]
KindOfNode == [n \in NodeObjects |-> n.kind]
Node(id, kind) == [id |-> id, kind |-> kind, found |-> FALSE]
Support(from, to) == [src |-> from, dst |-> to, kind |-> "supports"]

INSTANCE TaskGraph WITH
  Nodes <- NodeObjects,
  IdOf <- IdOfNode,
  KindOf <- KindOfNode

VARIABLES
  stage,        (* where the request is                                    *)
  repairs,      (* whether the caller uses the repairing pipeline          *)
  spec,         (* TaskSpec: [facts, claims, attachments], claims being    *)
                (* what they cite                                          *)
  attempts,     (* of the vision extraction                                *)
  ready,        (* answer_ready                                            *)
  answer,       (* SynthesisResult: [status, empty]                        *)
  graph, cycles, accepted, rejected, seen, status, initial, rejectedOn, stop

loopVars == <<graph, cycles, accepted, rejected, seen, status, initial, rejectedOn, stop>>
vars == <<stage, repairs, spec, attempts, ready, answer, loopVars>>

EmptyGraph == [nodes |-> {}, edges |-> {}]
NoSpec == [facts |-> 0, claims |-> << >>, attachments |-> 0]

(* _execute_action_with_tools: the only gap of a built graph is its goal.  *)
SearchPatch ==
  [nodes |-> {[Node(FoundId, "evidence") EXCEPT !.found = TRUE]},
   edges |-> {Support(FoundId, GoalId)}]

Loop ==
  INSTANCE RepairLoop WITH
    Nodes <- NodeObjects,
    IdOf <- IdOfNode,
    KindOf <- KindOfNode,
    InitialGraphs <- {EmptyGraph},
    Patches <- {SearchPatch}

Init ==
  /\ stage = "parse"
  /\ repairs \in BOOLEAN
  /\ spec = NoSpec
  /\ attempts = 0
  /\ ready = FALSE
  /\ answer = [status |-> "none", empty |-> TRUE]
  /\ graph = EmptyGraph /\ initial = EmptyGraph
  /\ cycles = 0 /\ accepted = 0 /\ rejected = 0
  /\ seen = {} /\ rejectedOn = {}
  /\ status = "running" /\ stop = "none"

-----------------------------------------------------------------------------
(* Parsing.                                                                *)

Sequences(S, n) == UNION {[1 .. k -> S] : k \in 0 .. n}

(* Facts that are no strings, claims without a text are skipped; evidence  *)
(* that is no string is dropped.                                           *)
Parse ==
  /\ stage = "parse"
  /\ \E facts \in 0 .. MaxFacts, claims \in Sequences(Citations, MaxClaims),
        images \in 0 .. MaxAttachments, extractor \in BOOLEAN :
       /\ spec' = [facts |-> facts, claims |-> claims, attachments |-> images]
       /\ stage' = IF images > 0 /\ extractor THEN "vision" ELSE "build"
  /\ UNCHANGED <<repairs, attempts, ready, answer, loopVars>>

(* The model raises, or answers something without a goal, or no JSON.      *)
ParseRaises ==
  /\ stage = "parse"
  /\ stage' = "raised"
  /\ UNCHANGED <<repairs, spec, attempts, ready, answer, loopVars>>

(* VisionExtractionUseCase.extract, one attempt: facts in front of those   *)
(* of the text.                                                            *)
VisionReturns ==
  /\ stage = "vision"
  /\ \E facts \in 0 .. MaxFacts : spec' = [spec EXCEPT !.facts = @ + facts]
  /\ stage' = "build"
  /\ UNCHANGED <<repairs, attempts, ready, answer, loopVars>>

(* Mutant: the last attempt starts the count over.                         *)
VisionFailsWraps ==
  /\ stage = "vision"
  /\ attempts' = (attempts + 1) % MaxAttempts
  /\ UNCHANGED <<stage, repairs, spec, ready, answer, loopVars>>

VisionFails ==
  /\ stage = "vision"
  /\ attempts' = attempts + 1
  /\ stage' = IF attempts' >= MaxAttempts THEN "build" ELSE "vision"
  /\ UNCHANGED <<repairs, spec, ready, answer, loopVars>>

-----------------------------------------------------------------------------
(* Building and validating.                                                *)

(* Claim i and its support of the goal, then its evidence: the node that   *)
(* has the id, or a new one.                                               *)
(* Mutant: a claim without evidence is taken for its own.                  *)
WithClaimAsEvidence(g, i, cited) ==
  LET id == <<"claim", i>>
      new == IF cited \in IdsOf(g.nodes) \cup {NoEvidence} THEN {} ELSE {Node(cited, "evidence")}
  IN  [nodes |-> g.nodes \cup {Node(id, IF cited = NoEvidence THEN "evidence" ELSE "claim")} \cup new,
       edges |-> g.edges \cup {Support(id, GoalId)}
                   \cup (IF cited = NoEvidence THEN {} ELSE {Support(cited, id)})]

WithClaim(g, i, cited) ==
  LET id == <<"claim", i>>
      new == IF cited \in IdsOf(g.nodes) \cup {NoEvidence} THEN {} ELSE {Node(cited, "evidence")}
  IN  [nodes |-> g.nodes \cup {Node(id, "claim")} \cup new,
       edges |-> g.edges \cup {Support(id, GoalId)}
                   \cup (IF cited = NoEvidence THEN {} ELSE {Support(cited, id)})]

(* _build_graph: the goal, its facts, the claims in order, the images.     *)
BuildGraph(s) ==
  LET facts == {"fact"} \X (1 .. s.facts)
      Claims[i \in 0 .. Len(s.claims)] ==
        IF i = 0
        THEN [nodes |-> {Node(GoalId, "goal")} \cup {Node(f, "fact") : f \in facts},
              edges |-> {Support(f, GoalId) : f \in facts}]
        ELSE WithClaim(Claims[i - 1], i, s.claims[i])
      g == Claims[Len(s.claims)]
      images == ({"attachment"} \X (1 .. s.attachments)) \ IdsOf(g.nodes)
  IN  [g EXCEPT !.nodes = @ \cup {Node(a, "evidence") : a \in images}]

(* TaskNodeId and TaskEdge refuse a blank id and an edge from a node to    *)
(* itself.                                                                 *)
BuildRaises ==
  /\ stage = "build"
  /\ \E i \in DOMAIN spec.claims : spec.claims[i] \in {Blank, <<"claim", i>>}
  /\ stage' = "raised"
  /\ UNCHANGED <<repairs, spec, attempts, ready, answer, loopVars>>

Ungrounded(g) == IdsOf(OfKind(g, {"claim"})) \ Grounded(g)
Reachable(g) == Goals(g) # {} /\ SupportedGoals(g) = Goals(g)

(* Mutant: the claims are not looked at.                                   *)
AnswerReadyIfReachable(g) == Reachable(g) /\ Violations(g) = {}

AnswerReady(g) == Reachable(g) /\ Ungrounded(g) = {} /\ Violations(g) = {}

Build ==
  /\ stage = "build"
  /\ \A i \in DOMAIN spec.claims : spec.claims[i] \notin {Blank, <<"claim", i>>}
  /\ graph' = BuildGraph(spec)
  /\ initial' = graph'
  /\ ready' = AnswerReady(graph')
  /\ stage' = IF repairs /\ Gaps(graph') # {} THEN "repair" ELSE "synthesize"
  /\ UNCHANGED <<repairs, spec, attempts, answer, cycles, accepted, rejected, seen, status,
                 rejectedOn, stop>>

(* One step of the loop: a search that finds something, or does not, or no *)
(* search tool, or the loop's end.                                         *)
Repair ==
  /\ stage = "repair"
  /\ Loop!Next
  /\ UNCHANGED <<stage, repairs, spec, attempts, ready, answer>>

RepairReturns ==
  /\ stage = "repair"
  /\ status # "running"
  /\ ready' = AnswerReady(graph)
  /\ stage' = "synthesize"
  /\ UNCHANGED <<repairs, spec, attempts, answer, loopVars>>

-----------------------------------------------------------------------------
(* SynthesizeAnswerUseCase.run                                             *)

(* A partial answer that tells the gaps, without asking the model.         *)
Partial ==
  /\ stage = "synthesize" /\ ~ready
  /\ answer' = [status |-> "partial", empty |-> FALSE]
  /\ stage' = "done"
  /\ UNCHANGED <<repairs, spec, attempts, ready, loopVars>>

Synthesize ==
  /\ stage = "synthesize" /\ ready
  /\ \E empty \in BOOLEAN : answer' = [status |-> "ok", empty |-> empty]
  /\ stage' = "done"
  /\ UNCHANGED <<repairs, spec, attempts, ready, loopVars>>

SynthesizeRaises ==
  /\ stage = "synthesize" /\ ready
  /\ stage' = "raised"
  /\ UNCHANGED <<repairs, spec, attempts, ready, answer, loopVars>>

(* OutputVerifierUseCase.verify; its fourth gate, version >= 0, always     *)
(* holds.                                                                  *)
Verify(text, g) == ~text.empty /\ Ungrounded(g) = {} /\ Goals(g) # {}

Next ==
  \/ Parse \/ ParseRaises \/ VisionReturns \/ VisionFails
  \/ BuildRaises \/ Build
  \/ Repair \/ RepairReturns
  \/ Partial \/ Synthesize \/ SynthesizeRaises

Spec == Init /\ [][Next]_vars

(* One thread, and calls of the model and the tool come back.              *)
FairSpec == Spec /\ WF_vars(Next)

-----------------------------------------------------------------------------
(* Properties.                                                             *)

(* Claims that stand on nothing but the goal and each other; the id of     *)
(* none of them is cited earlier, which makes it evidence (see the         *)
(* findings).                                                              *)
Bare(B) ==
  \A i \in B :
    /\ spec.claims[i] \in {NoEvidence, GoalId} \cup ({"claim"} \X B)
    /\ \A j \in 1 .. i - 1 : spec.claims[j] # <<"claim", i>>

(* "The LLM never covers ungrounded claims": the model is asked for an     *)
(* answer only when no claims stand on nothing, and when it is not asked,  *)
(* some do or the goal is out of reach; repair or not.                     *)
AnswerCoversCitedClaims ==
  LET bare == \E B \in SUBSET DOMAIN spec.claims : B # {} /\ Bare(B)
  IN  /\ answer.status = "ok" => ~bare
      /\ answer.status = "partial" => bare \/ ~Reachable(graph)

(* The verdict before the answer and the gates after it agree, with or     *)
(* without repair: an answer of the model passes them unless it is empty;  *)
(* a partial answer may pass them only for want of a supported goal.       *)
GatesAgree ==
  /\ answer.status = "ok" => (Verify(answer, graph) <=> ~answer.empty)
  /\ answer.status = "partial" /\ Verify(answer, graph) => ~Reachable(graph)

(* Every request ends: with an answer, a partial answer or an exception;   *)
(* images that cannot be read and searches that find nothing hold it up    *)
(* for a bounded number of attempts only.                                  *)
RequestEnds == <>(stage \in {"done", "raised"})

(* Types; the loop runs on the graph that was built.                       *)
TypeOK ==
  /\ stage \in {"parse", "vision", "build", "repair", "synthesize", "done", "raised"}
  /\ repairs \in BOOLEAN /\ ready \in BOOLEAN
  /\ spec.facts \in 0 .. 2 * MaxFacts /\ spec.attachments \in 0 .. MaxAttachments
  /\ spec.claims \in Sequences(Citations, MaxClaims)
  /\ attempts \in 0 .. MaxAttempts
  /\ IsGraph(graph) /\ IsGraph(initial)
  /\ cycles \in 0 .. MaxCycles
=============================================================================

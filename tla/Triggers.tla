------------------------------ MODULE Triggers ------------------------------
(***************************************************************************)
(* Graph-shaped triggers: PatternBehaviorRuntime and its subclass          *)
(* RelationBehaviorRuntime, with the handlers of the presets and the       *)
(* diligence pack, which propose patches that a gate approves and whose    *)
(* application changes the graph the triggers watch.                       *)
(*                                                                         *)
(* check_patterns and check_relations are given a view of the graph and    *)
(* walk the registrations.  A handler may change the graph, publish,       *)
(* register, raise, and check a newer view while the check that called it  *)
(* is still walking an older one, so checks form a stack.                  *)
(***************************************************************************)
EXTENDS Naturals, Sequences, FiniteSets, SequencesExt

CONSTANTS
  Vertices,
  TypeOf,          (* TypeOf[v]                                            *)
  Statuses,        (* values of the attribute that clauses filter on       *)
  Edges,           (* possible edges: [kind, source, target]               *)
  Patterns,        (* patterns: sets of clauses [type, exists, status,     *)
                   (* edge], with AnyStatus for a filter and NoEdge for an edge  *)
                   (* condition [kind, outgoing, type] that is not given   *)
  Relations,       (* RelationBehaviors: [kind, source, target,            *)
                   (* activateAfter], source and target being types        *)
  AnyStatus, NoEdge,
  Absent,          (* of a vertex the graph does not have                  *)
  MaxRegistrations,(* bound: registrations of each kind                    *)
  MaxChanges,      (* bound: changes to the graph                          *)
  MaxPublishes,    (* bound: events published                              *)
  MaxRaises,       (* bound: handlers that raise                           *)
  MaxChecks,       (* bound: checks                                        *)
  MaxNesting       (* bound: checks in progress; the code has none         *)

ASSUME GraphAssumption ==
  /\ DOMAIN TypeOf = Vertices
  /\ \A e \in Edges : {e.source, e.target} \subseteq Vertices
  /\ Absent \notin Statuses /\ AnyStatus \notin Statuses
ASSUME RelationAssumption == \A r \in Relations : r.activateAfter \in Nat
ASSUME BoundAssumption ==
  {MaxRegistrations, MaxChanges, MaxPublishes, MaxRaises, MaxChecks, MaxNesting} \subseteq Nat

VARIABLES
  graph,           (* [status, edges]: Absent or the status of each vertex *)
  patterns,        (* _pattern_triggers: [pattern, matched, fires]         *)
  relations,       (* _relation_triggers: [relation, fired]                *)
  eventsProcessed,
  stack,           (* the checks in progress, innermost last               *)
  patches,         (* the applier's patches: [by, about, status]           *)
  changes, raised, checks,
  raisedFor,       (* ghost: relation triggers whose handler raised        *)
  last             (* ghost: the view of the last pattern check, how many  *)
                   (* patterns it walked, and whether another one ran      *)
                   (* inside it                                            *)

vars == <<graph, patterns, relations, eventsProcessed, stack, patches, changes, raised, checks,
          raisedFor, last>>

-----------------------------------------------------------------------------
(* PatternMatcher and Relation over a view.                                *)
Has(view, v) == view.status[v] # Absent

(* An edge to or from a vertex of the type; a vertex the view lacks has no *)
(* type.                                                                   *)
HasEdge(view, v, spec) ==
  \E e \in view.edges :
    /\ e.kind = spec.kind
    /\ IF spec.outgoing
       THEN e.source = v /\ Has(view, e.target) /\ TypeOf[e.target] = spec.type
       ELSE e.target = v /\ Has(view, e.source) /\ TypeOf[e.source] = spec.type

FindMatchingVertices(view, clause) ==
  {v \in Vertices :
     /\ Has(view, v) /\ TypeOf[v] = clause.type
     /\ clause.status \in {AnyStatus, view.status[v]}
     /\ clause.edge = NoEdge \/ HasEdge(view, v, clause.edge)}

Matches(pattern, view) ==
  \A clause \in pattern : clause.exists <=> FindMatchingVertices(view, clause) # {}

MatchesEdge(relation, view, e) ==
  /\ relation.kind = e.kind
  /\ Has(view, e.source) /\ TypeOf[e.source] = relation.source
  /\ Has(view, e.target) /\ TypeOf[e.target] = relation.target

-----------------------------------------------------------------------------
Init ==
  /\ graph \in [status : [Vertices -> Statuses \cup {Absent}], edges : SUBSET Edges]
  /\ patterns = << >> /\ relations = << >>
  /\ eventsProcessed = 0
  /\ stack = << >>
  /\ patches = << >>
  /\ changes = 0 /\ raised = 0 /\ checks = 0
  /\ raisedFor = {}
  /\ last = [view |-> graph, walked |-> 0, nested |-> FALSE]

Idle == stack = << >>
Top == Last(stack)
Handling == ~Idle /\ Top.handling
Walking(kind) == ~Idle /\ ~Top.handling /\ Top.kind = kind
SetTop(check) == stack' = Append(Front(stack), check)

(* What callers and handlers alike may do.                                 *)
Free == Idle \/ Handling

Propose(by, about) == Append(patches, [by |-> by, about |-> about, status |-> "pending"])

Register ==
  /\ Free
  /\ \/ /\ Len(patterns) < MaxRegistrations
        /\ \E p \in Patterns :
             patterns' = Append(patterns, [pattern |-> p, matched |-> FALSE, fires |-> 0])
        /\ UNCHANGED relations
     \/ /\ Len(relations) < MaxRegistrations
        /\ \E r \in Relations : relations' = Append(relations, [relation |-> r, fired |-> {}])
        /\ UNCHANGED patterns
  /\ UNCHANGED <<graph, eventsProcessed, stack, patches, changes, raised, checks, raisedFor, last>>

(* publish of claim.created or gap.detected: evidence_check,               *)
(* question_generator or gap_filler proposes, whatever the graph holds,    *)
(* for the runtimes hand handlers no graph.                                *)
Publish ==
  /\ Free
  /\ eventsProcessed < MaxPublishes
  /\ eventsProcessed' = eventsProcessed + 1
  /\ patches' = Propose(<<"event", 0>>, eventsProcessed')
  /\ UNCHANGED <<graph, patterns, relations, stack, changes, raised, checks, raisedFor, last>>

(* The graph's owner, or a handler, changes it; edges may come and go      *)
(* without their ends.                                                     *)
Change ==
  /\ Free
  /\ changes < MaxChanges
  /\ changes' = changes + 1
  /\ \/ \E v \in Vertices, s \in Statuses \cup {Absent} :
          graph' = [graph EXCEPT !.status[v] = s]
     \/ \E e \in Edges :
          graph' = [graph EXCEPT !.edges = IF e \in @ THEN @ \ {e} ELSE @ \cup {e}]
  /\ UNCHANGED <<patterns, relations, eventsProcessed, stack, patches, raised, checks,
                 raisedFor, last>>

(* evaluate_all_pending with the stack's one policy, AUTO_APPROVE.         *)
Sweep ==
  /\ Idle
  /\ \E i \in DOMAIN patches : patches[i].status = "pending"
  /\ patches' = [i \in DOMAIN patches |->
       IF patches[i].status = "pending" THEN [patches[i] EXCEPT !.status = "approved"]
       ELSE patches[i]]
  /\ UNCHANGED <<graph, patterns, relations, eventsProcessed, stack, changes, raised, checks,
                 raisedFor, last>>

-----------------------------------------------------------------------------
Check(kind) ==
  [kind |-> kind, view |-> graph, at |-> 1, handling |-> FALSE, edge |-> NoEdge,
   seen |-> {}, due |-> {i \in DOMAIN relations :
                           relations[i].relation.activateAfter <= eventsProcessed},
   nested |-> FALSE]

(* check_patterns(view) or check_relations(view), by the caller or by a    *)
(* handler.                                                                *)
CheckBegins ==
  /\ Free
  /\ checks < MaxChecks /\ Len(stack) < MaxNesting
  /\ checks' = checks + 1
  /\ \E kind \in {"patterns", "relations"} :
       stack' = Append([i \in DOMAIN stack |->
                          [stack[i] EXCEPT !.nested = @ \/ kind = "patterns"]], Check(kind))
  /\ UNCHANGED <<graph, patterns, relations, eventsProcessed, patches, changes, raised,
                 raisedFor, last>>

(* The registration the pattern check is at: a rising edge latches and     *)
(* calls the handler, a falling one releases the latch.                    *)
(* Mutant: only a pattern that fires is touched.                           *)
PatternStepNoReset ==
  /\ Walking("patterns")
  /\ Top.at <= Len(patterns)
  /\ LET i == Top.at
         now == Matches(patterns[i].pattern, Top.view)
         fires == now /\ ~patterns[i].matched
     IN  /\ patterns' = [patterns EXCEPT ![i].matched = @ \/ now, ![i].fires = IF fires THEN @ + 1 ELSE @]
         /\ SetTop([Top EXCEPT !.at = @ + 1, !.handling = fires])
  /\ UNCHANGED <<graph, relations, eventsProcessed, patches, changes, raised, checks,
                 raisedFor, last>>

PatternStep ==
  /\ Walking("patterns")
  /\ Top.at <= Len(patterns)
  /\ LET i == Top.at
         now == Matches(patterns[i].pattern, Top.view)
         fires == now /\ ~patterns[i].matched
     IN  /\ patterns' = [patterns EXCEPT ![i].matched = now, ![i].fires = IF fires THEN @ + 1 ELSE @]
         /\ SetTop([Top EXCEPT !.at = @ + 1, !.handling = fires])
  /\ UNCHANGED <<graph, relations, eventsProcessed, patches, changes, raised, checks,
                 raisedFor, last>>

(* The relation check is at a registration that is active: some edge of    *)
(* the view it has not looked at.                                          *)
Active == relations[Top.at].relation.activateAfter <= eventsProcessed

Unseen == IF Top.seen = {} /\ ~Active THEN {} ELSE Top.view.edges \ Top.seen

(* Mutant: the key of an edge leaves out its source.                       *)
EdgeStepByTarget ==
  /\ Walking("relations")
  /\ Top.at <= Len(relations)
  /\ \E e \in Unseen :
       LET r == relations[Top.at]
           fires == /\ \A f \in r.fired : <<f.kind, f.target>> # <<e.kind, e.target>>
                    /\ MatchesEdge(r.relation, Top.view, e)
       IN  /\ relations' = IF fires THEN [relations EXCEPT ![Top.at].fired = @ \cup {e}] ELSE relations
           /\ SetTop([Top EXCEPT !.seen = @ \cup {e}, !.handling = fires, !.edge = e])
  /\ UNCHANGED <<graph, patterns, eventsProcessed, patches, changes, raised, checks,
                 raisedFor, last>>

EdgeStep ==
  /\ Walking("relations")
  /\ Top.at <= Len(relations)
  /\ \E e \in Unseen :
       LET r == relations[Top.at]
           fires == e \notin r.fired /\ MatchesEdge(r.relation, Top.view, e)
       IN  /\ relations' = IF fires THEN [relations EXCEPT ![Top.at].fired = @ \cup {e}] ELSE relations
           /\ SetTop([Top EXCEPT !.seen = @ \cup {e}, !.handling = fires, !.edge = e])
  /\ UNCHANGED <<graph, patterns, eventsProcessed, patches, changes, raised, checks,
                 raisedFor, last>>

RelationDone ==
  /\ Walking("relations")
  /\ Top.at <= Len(relations) /\ Unseen = {}
  /\ SetTop([Top EXCEPT !.at = @ + 1, !.seen = {}])
  /\ UNCHANGED <<graph, patterns, relations, eventsProcessed, patches, changes, raised, checks,
                 raisedFor, last>>

(* The innermost check is over, having walked so many patterns.            *)
Leaves(walked) ==
  /\ stack' = Front(stack)
  /\ last' = IF Top.kind = "patterns" /\ \A c \in Range(stack') : c.kind # "patterns"
             THEN [view |-> Top.view, walked |-> walked, nested |-> Top.nested]
             ELSE last

(* The handler returns with its patch proposed, or raises, which is        *)
(* swallowed; the registration stays latched, or the edge fired.           *)
Trigger == IF Top.kind = "patterns" THEN <<"pattern", Top.at - 1>> ELSE <<"relation", Top.at>>
About == IF Top.kind = "patterns" THEN patterns[Top.at - 1].fires ELSE Top.edge

HandlerReturns ==
  /\ Handling
  /\ patches' = Propose(Trigger, About)
  /\ SetTop([Top EXCEPT !.handling = FALSE])
  /\ UNCHANGED <<graph, patterns, relations, eventsProcessed, changes, raised, checks,
                 raisedFor, last>>

HandlerRaises ==
  /\ Handling
  /\ raised < MaxRaises
  /\ raised' = raised + 1
  /\ raisedFor' = raisedFor \cup {<<Trigger, About>>}
  /\ SetTop([Top EXCEPT !.handling = FALSE])
  /\ UNCHANGED <<graph, patterns, relations, eventsProcessed, patches, changes, checks, last>>

(* So it does, but the clock stepped back under it: the end of its span    *)
(* raises as well, out of the check, to whoever asked for it.              *)
SpanEndRaises ==
  /\ Handling
  /\ raised < MaxRaises
  /\ raised' = raised + 1
  /\ raisedFor' = raisedFor \cup {<<Trigger, About>>}
  /\ Leaves(Top.at - 1)
  /\ UNCHANGED <<graph, patterns, relations, eventsProcessed, patches, changes, checks>>

CheckEnds ==
  /\ \/ Walking("patterns") /\ Top.at > Len(patterns)
     \/ Walking("relations") /\ Top.at > Len(relations)
  /\ Leaves(Len(patterns))
  /\ UNCHANGED <<graph, patterns, relations, eventsProcessed, patches, changes, raised, checks,
                 raisedFor>>

Next ==
  \/ Register \/ Publish \/ Change \/ Sweep
  \/ CheckBegins \/ PatternStep \/ EdgeStep \/ RelationDone
  \/ HandlerReturns \/ HandlerRaises \/ SpanEndRaises \/ CheckEnds

Spec == Init /\ [][Next]_vars

-----------------------------------------------------------------------------
(* Properties.                                                             *)

(* A pattern's latch is what the last check saw of it: so checking an      *)
(* unchanged graph again fires nothing, and a pattern that came to match   *)
(* has fired.  (A check made from a handler breaks this: the check around  *)
(* it goes on with an older view and moves latches back.)                  *)
LatchTellsView ==
  (\A c \in Range(stack) : c.kind # "patterns") /\ ~last.nested =>
    \A i \in 1 .. last.walked : patterns[i].matched = Matches(patterns[i].pattern, last.view)

(* Every edge a check owed a relation trigger, for it was active when the  *)
(* check began and the edge matched, has fired it when the check is over;  *)
(* and an edge that fired a trigger has one patch of that trigger about    *)
(* it, unless its handler is still running or raised: never two, however   *)
(* checks nest and edges come and go, and never again.                     *)
OneProposalPerEdge ==
  /\ Walking("relations") /\ Top.at > Len(relations) =>
       \A i \in Top.due : \A e \in Top.view.edges :
         MatchesEdge(relations[i].relation, Top.view, e) => e \in relations[i].fired
  /\ \A i \in DOMAIN relations : \A e \in Edges :
       LET about == {n \in DOMAIN patches : patches[n].by = <<"relation", i>> /\ patches[n].about = e}
           running == \E c \in Range(stack) :
                        c.kind = "relations" /\ c.handling /\ c.at = i /\ c.edge = e
           settled == IF e \in relations[i].fired /\ ~running
                         /\ <<<<"relation", i>>, e>> \notin raisedFor
                      THEN 1 ELSE 0
       IN  Cardinality(about) = settled

(* Types; a latched pattern has fired, and checks nest no deeper than the  *)
(* bound.                                                                  *)
TypeOK ==
  /\ graph \in [status : [Vertices -> Statuses \cup {Absent}], edges : SUBSET Edges]
  /\ \A i \in DOMAIN patterns :
       /\ patterns[i] \in [pattern : Patterns, matched : BOOLEAN, fires : Nat]
       /\ patterns[i].matched => patterns[i].fires > 0
  /\ \A i \in DOMAIN relations : relations[i] \in [relation : Relations, fired : SUBSET Edges]
  /\ eventsProcessed \in 0 .. MaxPublishes
  /\ Len(stack) <= MaxNesting
  /\ \A c \in Range(stack) : c.view \in [status : [Vertices -> Statuses \cup {Absent}], edges : SUBSET Edges]
=============================================================================

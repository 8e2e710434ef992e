-------------------------- MODULE Triggers_proofs ---------------------------
(***************************************************************************)
(* Proofs about Triggers, for any graph, patterns, relations and bounds,   *)
(* whatever handlers do and however checks nest: an edge that fires a      *)
(* relation trigger gets one patch, never two and never again; and the     *)
(* latch of a pattern is what the last check saw, if no other ran in it.   *)
(*                                                                         *)
(* And about Evolution, for any candidates, baselines, genomes and limits: *)
(* an optimization loop and the engine agree on what an improvement is,    *)
(* and what the engine reports is what it measured.                        *)
(***************************************************************************)
EXTENDS Triggers, Evolution, DataLemmas, FiniteSetTheorems

-----------------------------------------------------------------------------
(* The inductive invariant.                                                *)

Views == [status : [Vertices -> Statuses \cup {Absent}], edges : SUBSET Edges]
PatternTriggers == [pattern : Patterns, matched : BOOLEAN, fires : Nat]
RelationTriggers == [relation : Relations, fired : SUBSET Edges]
Checks == [kind : {"patterns", "relations"}, view : Views, at : Nat \ {0}, handling : BOOLEAN,
           edge : Edges \cup {NoEdge}, seen : SUBSET Edges, due : SUBSET Nat, nested : BOOLEAN]
Patches == [by : {"event", "pattern", "relation"} \X Nat, about : Nat \cup Edges \cup {NoEdge},
            status : {"pending", "approved"}]

Records ==
  /\ graph \in Views
  /\ patterns \in Seq(PatternTriggers)
  /\ relations \in Seq(RelationTriggers)
  /\ eventsProcessed \in Nat
  /\ stack \in Seq(Checks)
  /\ patches \in Seq(Patches)

(* A check that is in a handler is past the pattern that called it.        *)
HandlersKnown ==
  \A k \in DOMAIN stack :
    stack[k].kind = "patterns" /\ stack[k].handling => stack[k].at - 1 \in DOMAIN patterns

(* What a check of the relations owes: the edges it has looked at.         *)
Owes(c, i, e) ==
  /\ e \in c.view.edges
  /\ MatchesEdge(relations[i].relation, c.view, e)
  /\ i < c.at \/ (i = c.at /\ e \in c.seen)

Paid(c) ==
  c.kind = "relations" =>
    \A i \in c.due : /\ i \in DOMAIN relations
                     /\ relations[i].relation.activateAfter <= eventsProcessed
                     /\ \A e \in Edges : Owes(c, i, e) => e \in relations[i].fired

ChecksPaid == \A k \in DOMAIN stack : Paid(stack[k])

(* An edge that fired a trigger is with its running handler, or has its    *)
(* patch, or its handler raised: one of them, once.                        *)
Runs(c, i, e) == c.kind = "relations" /\ c.handling /\ c.at = i /\ c.edge = e
Tells(p, i, e) == p.by = <<"relation", i>> /\ p.about = e

Running(i, e) == {k \in DOMAIN stack : Runs(stack[k], i, e)}
Told(i, e) == {n \in DOMAIN patches : Tells(patches[n], i, e)}
RaisedFor(i, e) == <<<<"relation", i>>, e>> \in raisedFor
Fired(i, e) == i \in DOMAIN relations /\ e \in relations[i].fired

Once(i, e) ==
  /\ \A j, k \in Running(i, e) : j = k
  /\ \A m, n \in Told(i, e) : m = n
  /\ Running(i, e) # {} => Told(i, e) = {} /\ ~RaisedFor(i, e)
  /\ Told(i, e) # {} => ~RaisedFor(i, e)
  /\ Fired(i, e) <=> Running(i, e) # {} \/ Told(i, e) # {} \/ RaisedFor(i, e)

EachOnce == \A i, e : Once(i, e)

IInv ==
  /\ TypeOK
  /\ Records
  /\ HandlersKnown
  /\ ChecksPaid
  /\ EachOnce

-----------------------------------------------------------------------------
(* Lemmas.                                                                 *)

(* A sequence whose elements are changed one by one.                       *)
LEMMA MappedSequence ==
  ASSUME NEW S, NEW s \in Seq(S), NEW t, t = [i \in DOMAIN s |-> t[i]],
         \A i \in DOMAIN s : t[i] \in S
  PROVE  t \in Seq(S) /\ Len(t) = Len(s) /\ DOMAIN t = DOMAIN s
<1>1. DOMAIN s = 1 .. Len(s) /\ Len(s) \in Nat
  BY LenProperties
<1>2. DOMAIN t = 1 .. Len(s) /\ t \in [1 .. Len(s) -> S]
  BY <1>1
<1>3. t \in Seq(S)
  BY <1>1, <1>2
<1> QED
  BY <1>1, <1>2, <1>3, LenProperties

(* The triggers only grow, and the events too.                             *)
Grown ==
  /\ eventsProcessed <= eventsProcessed'
  /\ DOMAIN relations \subseteq DOMAIN relations'
  /\ \A i \in DOMAIN relations : /\ relations'[i].relation = relations[i].relation
                                 /\ relations[i].fired \subseteq relations'[i].fired

LEMMA PaidKept ==
  ASSUME Records, Records', Grown, NEW c, Paid(c)
  PROVE  Paid(c)'
<1>1. ASSUME NEW i \in DOMAIN relations
      PROVE  relations[i].relation.activateAfter \in Nat
  <2>1. relations[i] \in RelationTriggers
    BY StackElement DEF Records
  <2> QED
    BY <2>1, RelationAssumption DEF RelationTriggers
<1>2. eventsProcessed \in Nat /\ eventsProcessed' \in Nat
  BY DEF Records
<1>3. ASSUME c.kind = "relations", NEW i \in c.due
      PROVE  /\ i \in DOMAIN relations'
             /\ relations'[i].relation.activateAfter <= eventsProcessed'
             /\ \A e \in Edges : Owes(c, i, e)' => e \in relations'[i].fired
  <2>1. /\ i \in DOMAIN relations
        /\ relations[i].relation.activateAfter <= eventsProcessed
        /\ \A e \in Edges : Owes(c, i, e) => e \in relations[i].fired
    BY <1>3 DEF Paid
  <2>2. relations'[i].relation = relations[i].relation
    BY <2>1 DEF Grown
  <2>3. \A e : Owes(c, i, e)' => Owes(c, i, e)
    BY <2>2 DEF Owes, MatchesEdge, Has
  <2> QED
    BY <1>1, <1>2, <2>1, <2>2, <2>3 DEF Grown
<1> QED
  BY <1>3 DEF Paid

(* A check in which only the handler, or the mark of nesting, changed.     *)
LEMMA SameDebt ==
  ASSUME NEW c, NEW d, Paid(c), d.kind = c.kind, d.view = c.view, d.at = c.at, d.seen = c.seen,
         d.due = c.due
  PROVE  Paid(d)
BY DEF Paid, Owes

(* A step that changes nothing about a trigger and an edge.                *)
LEMMA OnceKept ==
  ASSUME NEW i, NEW e, Once(i, e), Running(i, e)' = Running(i, e), Told(i, e)' = Told(i, e),
         RaisedFor(i, e)' <=> RaisedFor(i, e), Fired(i, e)' <=> Fired(i, e)
  PROVE  Once(i, e)'
BY DEF Once

(* The innermost check is replaced: what runs besides it, and what of it.  *)
LEMMA TopReplaced ==
  ASSUME stack \in Seq(Checks), stack # << >>, NEW c \in Checks, SetTop(c),
         NEW i, NEW e
  PROVE  /\ stack' \in Seq(Checks) /\ Len(stack') = Len(stack)
         /\ DOMAIN stack' = DOMAIN stack /\ Len(stack) \in DOMAIN stack
         /\ Top \in Checks /\ Top = stack[Len(stack)] /\ stack'[Len(stack)] = c
         /\ \A k \in DOMAIN stack : k # Len(stack) => stack'[k] = stack[k]
         /\ Runs(c, i, e) => Running(i, e)' = Running(i, e) \cup {Len(stack)}
         /\ ~Runs(c, i, e) => Running(i, e)' = Running(i, e) \ {Len(stack)}
         /\ Len(stack) \in Running(i, e) <=> Runs(Top, i, e)
<1> DEFINE n == Len(stack)
<1>1. /\ n \in DOMAIN stack /\ Top \in Checks /\ Top = stack[n]
      /\ DOMAIN stack = 1 .. n /\ n \in Nat
  BY StackPop, LenProperties DEF Top
<1>2. /\ stack' \in Seq(Checks) /\ Len(stack') = n
      /\ DOMAIN stack' = DOMAIN stack /\ stack'[n] = c
      /\ \A k \in DOMAIN stack : k < n => stack'[k] = stack[k]
  BY StackReplace DEF SetTop
<1> HIDE DEF n
<1>3. \A k \in DOMAIN stack : k # n => stack'[k] = stack[k]
  BY <1>1, <1>2
<1>4. Runs(c, i, e) => Running(i, e)' = Running(i, e) \cup {n}
  BY <1>1, <1>2, <1>3 DEF Running, Runs
<1>5. ~Runs(c, i, e) => Running(i, e)' = Running(i, e) \ {n}
  BY <1>1, <1>2, <1>3 DEF Running, Runs
<1>6. n \in Running(i, e) <=> Runs(Top, i, e)
  BY <1>1 DEF Running
<1> QED
  BY <1>1, <1>2, <1>3, <1>4, <1>5, <1>6 DEF n

(* The innermost check is over.                                            *)
LEMMA TopPopped ==
  ASSUME stack \in Seq(Checks), stack # << >>, stack' = Front(stack), NEW i, NEW e
  PROVE  /\ stack' \in Seq(Checks) /\ Len(stack') <= Len(stack)
         /\ Top \in Checks /\ Top = stack[Len(stack)] /\ Len(stack) \in DOMAIN stack
         /\ DOMAIN stack' \subseteq DOMAIN stack
         /\ \A k \in DOMAIN stack' : stack'[k] = stack[k]
         /\ Running(i, e)' = Running(i, e) \ {Len(stack)}
         /\ Len(stack) \in Running(i, e) <=> Runs(Top, i, e)
<1> DEFINE n == Len(stack)
<1>1. /\ n \in DOMAIN stack /\ Top \in Checks /\ Top = stack[n]
      /\ DOMAIN stack = 1 .. n /\ n \in Nat
  BY StackPop, LenProperties DEF Top
<1>2. /\ stack' \in Seq(Checks) /\ Len(stack') = n - 1
      /\ \A k \in DOMAIN stack' : k \in DOMAIN stack /\ stack'[k] = stack[k]
  BY StackPop
<1>3. DOMAIN stack' = 1 .. n - 1 /\ Len(stack') <= n
  BY <1>1, <1>2, LenProperties
<1> HIDE DEF n
<1>4. \A k \in DOMAIN stack : k # n => k \in DOMAIN stack'
  BY <1>1, <1>3
<1>5. n \notin DOMAIN stack'
  BY <1>1, <1>3
<1>6. Running(i, e)' = Running(i, e) \ {n}
  BY <1>2, <1>4, <1>5 DEF Running, Runs
<1>7. n \in Running(i, e) <=> Runs(Top, i, e)
  BY <1>1 DEF Running
<1> QED
  BY <1>1, <1>2, <1>3, <1>6, <1>7 DEF n

(* A patch more.                                                           *)
LEMMA PatchProposed ==
  ASSUME patches \in Seq(Patches), NEW by, NEW about,
         by \in {"event", "pattern", "relation"} \X Nat, about \in Nat \cup Edges \cup {NoEdge},
         patches' = Propose(by, about), NEW i, NEW e
  PROVE  /\ patches' \in Seq(Patches)
         /\ by = <<"relation", i>> /\ about = e => Told(i, e)' = Told(i, e) \cup {Len(patches) + 1}
         /\ ~(by = <<"relation", i>> /\ about = e) => Told(i, e)' = Told(i, e)
<1> DEFINE p == [by |-> by, about |-> about, status |-> "pending"]
           n == Len(patches) + 1
<1>1. p \in Patches /\ p.by = by /\ p.about = about
  BY DEF Patches
<1>2. patches' = Append(patches, p)
  BY DEF Propose
<1> HIDE DEF p
<1>3. /\ patches' \in Seq(Patches)
      /\ DOMAIN patches' = DOMAIN patches \cup {n} /\ n \notin DOMAIN patches
      /\ \A k \in DOMAIN patches : patches'[k] = patches[k]
      /\ patches'[n] = p
  BY <1>1, <1>2, AppendProperties, LenProperties
<1> HIDE DEF n
<1> QED
  BY <1>1, <1>3 DEF Told, Tells, n

-----------------------------------------------------------------------------
(* What is left to show of the invariant for steps that leave the checks   *)
(* alone, replace the innermost or take it off the stack.                  *)
Latched == \A i \in DOMAIN patterns : patterns[i].matched => patterns[i].fires > 0

LEMMA TypesFollow ==
  ASSUME Records', Latched', eventsProcessed' \in 0 .. MaxPublishes, Len(stack') <= MaxNesting
  PROVE  TypeOK'
<1>1. ASSUME NEW i \in DOMAIN patterns' PROVE patterns'[i] \in PatternTriggers
  BY StackElement DEF Records
<1>2. ASSUME NEW i \in DOMAIN relations' PROVE relations'[i] \in RelationTriggers
  BY StackElement DEF Records
<1>3. ASSUME NEW k \in DOMAIN stack' PROVE stack'[k] \in Checks
  BY StackElement DEF Records
<1>4. \A k \in DOMAIN stack' : stack'[k].view \in Views
  BY <1>3 DEF Checks
<1>5. \A c \in Range(stack') : c.view \in Views
  BY <1>4 DEF Range
<1> QED
  BY <1>1, <1>2, <1>5 DEF TypeOK, Records, Latched, Views, PatternTriggers, RelationTriggers

LEMMA InvariantImplies ==
  ASSUME IInv
  PROVE  /\ Latched /\ eventsProcessed \in 0 .. MaxPublishes /\ Len(stack) <= MaxNesting
         /\ stack \in Seq(Checks) /\ patches \in Seq(Patches)
BY DEF IInv, TypeOK, Latched, Records

LEMMA StackStays ==
  ASSUME IInv, Records', Latched', eventsProcessed' \in 0 .. MaxPublishes, Grown,
         UNCHANGED <<stack, raisedFor>>, DOMAIN patterns \subseteq DOMAIN patterns',
         \A i, e : (Fired(i, e)' <=> Fired(i, e)) /\ Told(i, e)' = Told(i, e)
  PROVE  IInv'
<1>1. TypeOK'
  BY InvariantImplies, TypesFollow
<1>2. HandlersKnown'
  BY DEF IInv, HandlersKnown
<1>3. ChecksPaid'
  <2>1. \A k \in DOMAIN stack : Paid(stack[k])'
    BY PaidKept DEF IInv, ChecksPaid
  <2> QED
    BY <2>1 DEF ChecksPaid
<1>4. EachOnce'
  <2>1. ASSUME NEW i, NEW e PROVE Once(i, e)'
    <3>1. Running(i, e)' = Running(i, e) /\ (RaisedFor(i, e)' <=> RaisedFor(i, e))
      BY DEF Running, Runs, RaisedFor
    <3> QED
      BY <3>1, OnceKept DEF IInv, EachOnce
  <2> QED
    BY <2>1 DEF EachOnce
<1> QED
  BY <1>1, <1>2, <1>3, <1>4 DEF IInv

LEMMA TopStep ==
  ASSUME IInv, Records', Latched', eventsProcessed' \in 0 .. MaxPublishes, Grown,
         stack # << >>, NEW c \in Checks, SetTop(c), DOMAIN patterns' = DOMAIN patterns,
         c.kind = "patterns" /\ c.handling => c.at - 1 \in DOMAIN patterns,
         Paid(c)', EachOnce'
  PROVE  IInv'
<1>1. /\ stack' \in Seq(Checks) /\ Len(stack') = Len(stack)
      /\ DOMAIN stack' = DOMAIN stack /\ stack'[Len(stack)] = c
      /\ \A k \in DOMAIN stack : k # Len(stack) => stack'[k] = stack[k]
  BY TopReplaced, InvariantImplies
<1>2. TypeOK'
  BY <1>1, InvariantImplies, TypesFollow
<1>3. HandlersKnown'
  BY <1>1 DEF IInv, HandlersKnown
<1>4. ChecksPaid'
  <2>1. ASSUME NEW k \in DOMAIN stack, k # Len(stack) PROVE Paid(stack[k])'
    <3> DEFINE d == stack[k]
    <3>1. Paid(d)
      BY DEF IInv, ChecksPaid
    <3>2. d = stack'[k]
      BY <1>1, <2>1
    <3> QED
      BY <3>1, <3>2, PaidKept DEF IInv
  <2> QED
    BY <1>1, <2>1 DEF ChecksPaid
<1> QED
  BY <1>2, <1>3, <1>4 DEF IInv

LEMMA TopGone ==
  ASSUME IInv, Records', stack # << >>, stack' = Front(stack),
         UNCHANGED <<patterns, relations, eventsProcessed>>, EachOnce'
  PROVE  IInv'
<1>1. /\ stack' \in Seq(Checks) /\ Len(stack') <= Len(stack)
      /\ DOMAIN stack' \subseteq DOMAIN stack
      /\ \A k \in DOMAIN stack' : stack'[k] = stack[k]
  BY TopPopped, InvariantImplies
<1>2. TypeOK'
  <2>1. Len(stack') <= MaxNesting
    <3> DEFINE m == Len(stack)
               n == Len(stack')
    <3>1. m \in Nat /\ n \in Nat /\ n <= m /\ m <= MaxNesting
      BY <1>1, InvariantImplies, LenProperties
    <3> HIDE DEF m, n
    <3>2. n <= MaxNesting
      BY <3>1, BoundAssumption
    <3> QED
      BY <3>2 DEF n
  <2>2. Latched' /\ eventsProcessed' \in 0 .. MaxPublishes
    BY InvariantImplies DEF Latched
  <2> QED
    BY <2>1, <2>2, TypesFollow
<1>3. HandlersKnown'
  BY <1>1 DEF IInv, HandlersKnown
<1>4. ChecksPaid'
  BY <1>1 DEF IInv, ChecksPaid, Paid, Owes, MatchesEdge, Has
<1> QED
  BY <1>2, <1>3, <1>4 DEF IInv

-----------------------------------------------------------------------------
LEMMA InitIInv == Init => IInv
<1> SUFFICES ASSUME Init PROVE IInv
  OBVIOUS
<1> USE BoundAssumption
<1>1. DOMAIN patterns = {} /\ DOMAIN relations = {} /\ DOMAIN stack = {} /\ DOMAIN patches = {}
  BY DEF Init
<1>2. Records
  BY DEF Init, Records, Views
<1>3. TypeOK
  <2>1. Range(stack) = {} /\ Len(stack) = 0
    BY <1>1 DEF Init, Range
  <2> QED
    BY <1>1, <2>1 DEF Init, TypeOK
<1>4. HandlersKnown /\ ChecksPaid
  BY <1>1 DEF HandlersKnown, ChecksPaid
<1>5. ASSUME NEW i, NEW e PROVE Once(i, e)
  <2>1. Running(i, e) = {} /\ Told(i, e) = {} /\ ~Fired(i, e)
    BY <1>1 DEF Running, Told, Fired
  <2>2. ~RaisedFor(i, e)
    BY DEF Init, RaisedFor
  <2> QED
    BY <2>1, <2>2 DEF Once
<1> QED
  BY <1>2, <1>3, <1>4, <1>5 DEF IInv, EachOnce

(* A trigger registered has fired nothing.                                 *)
LEMMA RegisterIInv ==
  ASSUME IInv, Register
  PROVE  IInv'
<1>1. /\ UNCHANGED <<graph, eventsProcessed, stack, patches, raisedFor>>
      /\ eventsProcessed \in Nat /\ patterns \in Seq(PatternTriggers)
      /\ relations \in Seq(RelationTriggers)
  BY DEF Register, IInv, Records
<1>2. \A i, e : Told(i, e)' = Told(i, e)
  BY <1>1 DEF Told, Tells
<1>3. CASE /\ \E p \in Patterns :
                patterns' = Append(patterns, [pattern |-> p, matched |-> FALSE, fires |-> 0])
           /\ UNCHANGED relations
  <2>1. PICK p \in Patterns :
          patterns' = Append(patterns, [pattern |-> p, matched |-> FALSE, fires |-> 0])
    BY <1>3
  <2> DEFINE t == [pattern |-> p, matched |-> FALSE, fires |-> 0]
             n == Len(patterns) + 1
  <2>2. t \in PatternTriggers /\ ~t.matched
    BY DEF PatternTriggers
  <2> HIDE DEF t
  <2>3. /\ patterns' \in Seq(PatternTriggers)
        /\ DOMAIN patterns' = DOMAIN patterns \cup {n}
        /\ \A i \in DOMAIN patterns : patterns'[i] = patterns[i]
        /\ patterns'[n] = t
    BY <1>1, <2>1, <2>2, AppendProperties, LenProperties DEF t
  <2> HIDE DEF n
  <2>4. Latched'
    BY <2>2, <2>3, InvariantImplies DEF Latched
  <2>5. Grown /\ \A i, e : Fired(i, e)' <=> Fired(i, e)
    BY <1>1, <1>3 DEF Grown, Fired
  <2>6. Records'
    BY <1>1, <1>3, <2>3 DEF IInv, Records
  <2> QED
    BY <1>1, <1>2, <2>3, <2>4, <2>5, <2>6, InvariantImplies, StackStays
<1>4. CASE /\ \E r \in Relations : relations' = Append(relations, [relation |-> r, fired |-> {}])
           /\ UNCHANGED patterns
  <2>1. PICK r \in Relations : relations' = Append(relations, [relation |-> r, fired |-> {}])
    BY <1>4
  <2> DEFINE t == [relation |-> r, fired |-> {}]
             n == Len(relations) + 1
  <2>2. t \in RelationTriggers /\ t.fired = {}
    BY DEF RelationTriggers
  <2> HIDE DEF t
  <2>3. /\ relations' \in Seq(RelationTriggers)
        /\ DOMAIN relations' = DOMAIN relations \cup {n}
        /\ \A i \in DOMAIN relations : relations'[i] = relations[i]
        /\ relations'[n] = t
    BY <1>1, <2>1, <2>2, AppendProperties, LenProperties DEF t
  <2> HIDE DEF n
  <2>4. Latched'
    BY <1>4, InvariantImplies DEF Latched
  <2>5. Grown /\ \A i, e : Fired(i, e)' <=> Fired(i, e)
    BY <1>1, <2>2, <2>3 DEF Grown, Fired
  <2>6. Records'
    BY <1>1, <1>4, <2>3 DEF IInv, Records
  <2> QED
    BY <1>1, <1>2, <1>4, <2>4, <2>5, <2>6, InvariantImplies, StackStays
<1> QED
  BY <1>3, <1>4 DEF Register

(* An event's patch is none of a trigger's.                                *)
LEMMA PublishIInv ==
  ASSUME IInv, Publish
  PROVE  IInv'
<1> USE BoundAssumption
<1> DEFINE by == <<"event", 0>>
           about == eventsProcessed'
<1>1. /\ UNCHANGED <<graph, patterns, relations, stack, raisedFor>>
      /\ eventsProcessed \in Nat /\ eventsProcessed' = eventsProcessed + 1
      /\ eventsProcessed' \in 0 .. MaxPublishes /\ patches' = Propose(by, about)
  BY DEF Publish, IInv, Records
<1>2. /\ by \in {"event", "pattern", "relation"} \X Nat
      /\ about \in Nat \cup Edges \cup {NoEdge} /\ \A i : by # <<"relation", i>>
  BY <1>1
<1> HIDE DEF by, about
<1>3. patches' \in Seq(Patches) /\ \A i, e : Told(i, e)' = Told(i, e)
  BY <1>1, <1>2, InvariantImplies, PatchProposed
<1>4. Grown /\ \A i, e : Fired(i, e)' <=> Fired(i, e)
  BY <1>1 DEF Grown, Fired
<1>5. Latched'
  BY <1>1, InvariantImplies DEF Latched
<1>6. Records'
  BY <1>1, <1>3 DEF IInv, Records
<1> QED
  BY <1>1, <1>3, <1>4, <1>5, <1>6, StackStays

(* The graph changes, and only what later checks see.                      *)
LEMMA ChangeIInv ==
  ASSUME IInv, Change
  PROVE  IInv'
<1>1. /\ UNCHANGED <<patterns, relations, eventsProcessed, stack, patches, raisedFor>>
      /\ eventsProcessed \in Nat
  BY DEF Change, IInv, Records
<1>2. graph' \in Views
  BY DEF Change, IInv, Records, Views
<1>3. Grown /\ \A i, e : (Fired(i, e)' <=> Fired(i, e)) /\ Told(i, e)' = Told(i, e)
  BY <1>1 DEF Grown, Fired, Told, Tells
<1>4. Latched'
  BY <1>1, InvariantImplies DEF Latched
<1>5. Records'
  BY <1>1, <1>2 DEF IInv, Records
<1> QED
  BY <1>1, <1>3, <1>4, <1>5, InvariantImplies, StackStays

(* Patches keep what they are about when they are approved.                *)
LEMMA SweepIInv ==
  ASSUME IInv, Sweep
  PROVE  IInv'
<1>1. /\ UNCHANGED <<graph, patterns, relations, eventsProcessed, stack, raisedFor>>
      /\ eventsProcessed \in Nat /\ patches \in Seq(Patches)
  BY DEF Sweep, IInv, Records
<1>2. patches' = [i \in DOMAIN patches |->
        IF patches[i].status = "pending" THEN [patches[i] EXCEPT !.status = "approved"]
        ELSE patches[i]]
  BY DEF Sweep
<1>3. ASSUME NEW i \in DOMAIN patches
      PROVE  /\ patches'[i] \in Patches
             /\ patches'[i].by = patches[i].by /\ patches'[i].about = patches[i].about
  <2>1. patches[i] \in Patches
    BY <1>1, StackElement
  <2> QED
    BY <1>2, <2>1 DEF Patches
<1>4. patches' \in Seq(Patches) /\ DOMAIN patches' = DOMAIN patches
  BY <1>1, <1>2, <1>3, MappedSequence
<1>5. Grown /\ \A i, e : (Fired(i, e)' <=> Fired(i, e)) /\ Told(i, e)' = Told(i, e)
  BY <1>1, <1>3, <1>4 DEF Grown, Fired, Told, Tells
<1>6. Latched'
  BY <1>1, InvariantImplies DEF Latched
<1>7. Records'
  BY <1>1, <1>4 DEF IInv, Records
<1> QED
  BY <1>1, <1>5, <1>6, <1>7, InvariantImplies, StackStays

(* A check that begins owes nothing yet, and those around it owe the same. *)
LEMMA CheckBeginsIInv ==
  ASSUME IInv, CheckBegins
  PROVE  IInv'
<1> USE BoundAssumption
<1>1. PICK kind \in {"patterns", "relations"} :
        stack' = Append([i \in DOMAIN stack |->
                           [stack[i] EXCEPT !.nested = @ \/ kind = "patterns"]], Check(kind))
  BY DEF CheckBegins
<1>2. /\ UNCHANGED <<graph, patterns, relations, eventsProcessed, patches, raisedFor>>
      /\ stack \in Seq(Checks) /\ Len(stack) < MaxNesting /\ Len(stack) \in Nat
      /\ relations \in Seq(RelationTriggers) /\ eventsProcessed \in Nat
  BY LenProperties DEF CheckBegins, IInv, Records
<1> DEFINE t == [i \in DOMAIN stack |-> [stack[i] EXCEPT !.nested = @ \/ kind = "patterns"]]
           c == Check(kind)
           n == Len(stack) + 1
<1>3. ASSUME NEW k \in DOMAIN stack
      PROVE  /\ t[k] \in Checks /\ t[k].kind = stack[k].kind /\ t[k].view = stack[k].view
             /\ t[k].at = stack[k].at /\ t[k].handling = stack[k].handling
             /\ t[k].edge = stack[k].edge /\ t[k].seen = stack[k].seen /\ t[k].due = stack[k].due
  <2>1. stack[k] \in Checks
    BY <1>2, StackElement
  <2> QED
    BY <2>1 DEF Checks
<1>4. t = [i \in DOMAIN stack |-> t[i]]
  OBVIOUS
<1>5. c \in Checks /\ ~c.handling /\ Paid(c)
  <2>1. DOMAIN relations = 1 .. Len(relations) /\ Len(relations) \in Nat
    BY <1>2, LenProperties
  <2>2. graph \in Views
    BY DEF IInv, Records
  <2>3. c \in Checks /\ ~c.handling
    BY <2>1, <2>2 DEF Check, Checks
  <2>4. /\ c.at = 1 /\ c.seen = {}
        /\ \A i \in c.due : i \in DOMAIN relations /\ relations[i].relation.activateAfter <= eventsProcessed
    BY DEF Check
  <2> HIDE DEF c
  <2>5. \A i \in DOMAIN relations : ~(i < 1)
    BY <2>1
  <2> QED
    BY <2>3, <2>4, <2>5 DEF Paid, Owes
<1> HIDE DEF t, c
<1>6. t \in Seq(Checks) /\ Len(t) = Len(stack) /\ DOMAIN t = DOMAIN stack
  BY <1>2, <1>3, <1>4, MappedSequence
<1>7. stack' = Append(t, c)
  BY <1>1 DEF t, c
<1>8. /\ stack' \in Seq(Checks) /\ Len(stack') = n
      /\ DOMAIN stack' = DOMAIN stack \cup {n}
      /\ \A k \in DOMAIN stack : stack'[k] = t[k]
      /\ stack'[n] = c
  BY <1>2, <1>5, <1>6, <1>7, AppendProperties, LenProperties
<1>9. n <= MaxNesting
  BY <1>2
<1> HIDE DEF n
<1>10. Records'
  BY <1>2, <1>8 DEF IInv, Records
<1>11. TypeOK'
  <2>1. Latched'
    BY <1>2, InvariantImplies DEF Latched
  <2> QED
    BY <1>2, <1>8, <1>9, <1>10, <2>1, InvariantImplies, TypesFollow
<1>12. HandlersKnown'
  BY <1>2, <1>3, <1>5, <1>8 DEF IInv, HandlersKnown
<1>13. ChecksPaid'
  <2>1. Grown
    BY <1>2 DEF Grown
  <2>2. ASSUME NEW k \in DOMAIN stack PROVE Paid(t[k])
    BY <1>3, SameDebt DEF IInv, ChecksPaid
  <2>3. ASSUME NEW k \in DOMAIN stack' PROVE Paid(stack'[k])
    BY <1>5, <1>8, <2>2
  <2>4. \A k \in DOMAIN stack' : Paid(stack'[k])
    BY <2>3
  <2> QED
    BY <1>2, <2>4 DEF ChecksPaid, Paid, Owes
<1>14. EachOnce'
  <2>1. ASSUME NEW i, NEW e PROVE Once(i, e)'
    <3>1. Running(i, e)' = Running(i, e)
      BY <1>3, <1>5, <1>8 DEF Running, Runs
    <3>2. /\ Told(i, e)' = Told(i, e)
          /\ RaisedFor(i, e)' <=> RaisedFor(i, e)
          /\ Fired(i, e)' <=> Fired(i, e)
      BY <1>2 DEF Told, Tells, RaisedFor, Fired
    <3> QED
      BY <3>1, <3>2, OnceKept DEF IInv, EachOnce
  <2> QED
    BY <2>1 DEF EachOnce
<1> QED
  BY <1>10, <1>11, <1>12, <1>13, <1>14 DEF IInv

(* The innermost check goes on.                                            *)
LEMMA TopIsCheck ==
  ASSUME IInv, stack # << >>
  PROVE  /\ Top \in Checks /\ Top = stack[Len(stack)] /\ Len(stack) \in DOMAIN stack
         /\ Paid(Top)
         /\ Top.kind = "patterns" /\ Top.handling => Top.at - 1 \in DOMAIN patterns
<1>1. stack \in Seq(Checks)
  BY DEF IInv, Records
<1>2. Top \in Checks /\ Top = stack[Len(stack)] /\ Len(stack) \in DOMAIN stack
  BY <1>1, StackPop DEF Top
<1> QED
  BY <1>2 DEF IInv, HandlersKnown, ChecksPaid

(* A pattern latches or is released.                                       *)
LEMMA PatternStepIInv ==
  ASSUME IInv, PatternStep
  PROVE  IInv'
<1> DEFINE n == Top.at
           now == Matches(patterns[n].pattern, Top.view)
           fires == now /\ ~patterns[n].matched
           c == [Top EXCEPT !.at = @ + 1, !.handling = fires]
           new == [patterns EXCEPT ![n].matched = now, ![n].fires = IF fires THEN @ + 1 ELSE @]
<1>1. /\ stack # << >> /\ ~Top.handling /\ Top.kind = "patterns" /\ n <= Len(patterns)
      /\ patterns' = new /\ SetTop(c)
      /\ UNCHANGED <<graph, relations, eventsProcessed, patches, raisedFor>>
  BY DEF PatternStep, Walking, Idle
<1>2. /\ Top \in Checks /\ patterns \in Seq(PatternTriggers) /\ eventsProcessed \in Nat
      /\ stack \in Seq(Checks)
  BY <1>1, TopIsCheck DEF IInv, Records
<1>3. n \in DOMAIN patterns
  BY <1>1, <1>2, LenProperties DEF Checks
<1>4. now \in BOOLEAN /\ fires \in BOOLEAN
  BY DEF Matches
<1>5. patterns[n] \in PatternTriggers
  BY <1>2, <1>3, StackElement
<1>6. c \in Checks /\ c.kind = "patterns" /\ c.at - 1 = n
  <2> HIDE DEF fires
  <2>1. n \in Nat \ {0} /\ n + 1 \in Nat \ {0} /\ (n + 1) - 1 = n
    BY <1>2 DEF Checks
  <2>2. c.at = n + 1 /\ c.kind = Top.kind
    BY <1>2 DEF Checks
  <2>3. c \in Checks
    BY <1>2, <1>4, <2>1 DEF Checks
  <2> QED
    BY <1>1, <2>1, <2>2, <2>3
<1>7. /\ DOMAIN new = DOMAIN patterns
      /\ \A i \in DOMAIN patterns : i # n => new[i] = patterns[i]
      /\ new[n] = [patterns[n] EXCEPT !.matched = now, !.fires = IF fires THEN @ + 1 ELSE @]
  <2> HIDE DEF now, fires
  <2> QED
    BY <1>3, <1>5 DEF PatternTriggers
<1>8. new[n] \in PatternTriggers /\ new[n].matched = now
  <2> HIDE DEF now, fires, new
  <2>1. /\ new[n].matched = now /\ new[n].pattern = patterns[n].pattern
        /\ new[n].fires \in Nat
    BY <1>4, <1>5, <1>7 DEF PatternTriggers
  <2>2. new[n] = [pattern |-> new[n].pattern, matched |-> now, fires |-> new[n].fires]
    BY <1>5, <1>7, <2>1 DEF PatternTriggers
  <2> QED
    BY <1>4, <1>5, <2>1, <2>2 DEF PatternTriggers
<1>9. now => new[n].fires > 0
  <2>1. new[n].fires = IF fires THEN patterns[n].fires + 1 ELSE patterns[n].fires
    <3> HIDE DEF now, fires, new
    <3> QED
      BY <1>5, <1>7 DEF PatternTriggers
  <2>2. patterns[n].matched => patterns[n].fires > 0
    BY <1>3, InvariantImplies DEF Latched
  <2>3. patterns[n].fires \in Nat
    BY <1>5 DEF PatternTriggers
  <2> HIDE DEF now, new
  <2> QED
    BY <2>1, <2>2, <2>3
<1>10. \A i \in DOMAIN patterns : new[i] \in PatternTriggers
  <2> HIDE DEF new
  <2> QED
    BY <1>2, <1>7, <1>8, StackElement
<1>11. new \in Seq(PatternTriggers)
  <2>1. new = [i \in DOMAIN patterns |-> new[i]]
    OBVIOUS
  <2> HIDE DEF new
  <2> QED
    BY <1>2, <1>10, <2>1, MappedSequence
<1>12. Latched'
  <2> HIDE DEF new, now
  <2> QED
    BY <1>1, <1>7, <1>8, <1>9, InvariantImplies DEF Latched
<1>13. Records'
  <2>1. stack' \in Seq(Checks)
    BY <1>1, <1>2, <1>6, TopReplaced
  <2> QED
    BY <1>1, <1>11, <2>1 DEF IInv, Records
<1>14. Grown
  BY <1>1, <1>2 DEF Grown
<1> HIDE DEF c, new
<1>15. PICK d \in Checks : d = c
  BY <1>6
<1>17. Paid(d)'
  BY <1>6, <1>15 DEF Paid
<1>18. EachOnce'
  <2>1. ASSUME NEW i, NEW e PROVE Once(i, e)'
    <3>1. ~Runs(d, i, e) /\ ~Runs(Top, i, e)
      BY <1>1, <1>6, <1>15 DEF Runs
    <3>2. SetTop(d)
      BY <1>1, <1>15
    <3>3. /\ Running(i, e)' = Running(i, e) \ {Len(stack)}
          /\ Len(stack) \notin Running(i, e)
      BY <1>1, <1>2, <3>1, <3>2, TopReplaced
    <3>4. Running(i, e)' = Running(i, e)
      BY <3>3
    <3>5. /\ Told(i, e)' = Told(i, e)
          /\ RaisedFor(i, e)' <=> RaisedFor(i, e)
          /\ Fired(i, e)' <=> Fired(i, e)
      BY <1>1 DEF Told, Tells, RaisedFor, Fired
    <3> QED
      BY <3>4, <3>5, OnceKept DEF IInv, EachOnce
  <2> QED
    BY <2>1 DEF EachOnce
<1>19. SetTop(d) /\ (d.kind = "patterns" /\ d.handling => d.at - 1 \in DOMAIN patterns)
  BY <1>1, <1>3, <1>6, <1>15
<1>20. DOMAIN patterns' = DOMAIN patterns /\ eventsProcessed' \in 0 .. MaxPublishes
  BY <1>1, <1>7, InvariantImplies
<1> QED
  BY <1>1, <1>12, <1>13, <1>14, <1>17, <1>18, <1>19, <1>20, TopStep

(* An edge is looked at, and may fire the relation.                        *)
LEMMA EdgeStepIInv ==
  ASSUME IInv, EdgeStep
  PROVE  IInv'
<1>1. PICK e \in Unseen :
        LET r == relations[Top.at]
            fires == e \notin r.fired /\ MatchesEdge(r.relation, Top.view, e)
        IN  /\ relations' = IF fires THEN [relations EXCEPT ![Top.at].fired = @ \cup {e}] ELSE relations
            /\ SetTop([Top EXCEPT !.seen = @ \cup {e}, !.handling = fires, !.edge = e])
  BY DEF EdgeStep
<1> DEFINE n == Top.at
           matches == MatchesEdge(relations[n].relation, Top.view, e)
           fires == e \notin relations[n].fired /\ matches
           c == [Top EXCEPT !.seen = @ \cup {e}, !.handling = fires, !.edge = e]
           new == [relations EXCEPT ![n].fired = @ \cup {e}]
<1>2. /\ stack # << >> /\ ~Top.handling /\ Top.kind = "relations" /\ n <= Len(relations)
      /\ relations' = IF fires THEN new ELSE relations
      /\ SetTop(c)
      /\ UNCHANGED <<graph, patterns, eventsProcessed, patches, raisedFor>>
  BY <1>1 DEF EdgeStep, Walking, Idle
<1>3. /\ Top \in Checks /\ relations \in Seq(RelationTriggers) /\ eventsProcessed \in Nat
      /\ stack \in Seq(Checks) /\ Paid(Top)
  BY <1>2, TopIsCheck DEF IInv, Records
<1>4. n \in DOMAIN relations
  BY <1>2, <1>3, LenProperties DEF Checks
<1>5. fires \in BOOLEAN
  BY DEF MatchesEdge
<1>6. relations[n] \in RelationTriggers
  BY <1>3, <1>4, StackElement
<1>7. e \in Edges
  BY <1>3 DEF Unseen, Checks, Views
<1>8. /\ c \in Checks /\ c.kind = "relations" /\ c.at = n /\ c.view = Top.view /\ c.due = Top.due
      /\ c.seen = Top.seen \cup {e} /\ c.handling = fires /\ c.edge = e
  <2> HIDE DEF fires
  <2> QED
    BY <1>2, <1>3, <1>5, <1>7 DEF Checks
<1>9. /\ DOMAIN new = DOMAIN relations
      /\ \A i \in DOMAIN relations : i # n => new[i] = relations[i]
      /\ new[n].fired = relations[n].fired \cup {e}
      /\ new[n].relation = relations[n].relation
      /\ new[n] \in RelationTriggers
  BY <1>4, <1>6, <1>7 DEF RelationTriggers
<1>10. new \in Seq(RelationTriggers)
  <2>1. \A i \in DOMAIN relations : new[i] \in RelationTriggers
    <3> HIDE DEF new
    <3> QED
      BY <1>3, <1>9, StackElement
  <2>2. new = [i \in DOMAIN relations |-> new[i]]
    OBVIOUS
  <2> HIDE DEF new
  <2> QED
    BY <1>3, <2>1, <2>2, MappedSequence
<1> HIDE DEF c, new, matches
<1>11. /\ relations' \in Seq(RelationTriggers)
       /\ DOMAIN relations' = DOMAIN relations
       /\ \A i \in DOMAIN relations :
            /\ relations'[i].relation = relations[i].relation
            /\ relations'[i].fired = IF fires /\ i = n THEN relations[i].fired \cup {e}
                                     ELSE relations[i].fired
  BY <1>2, <1>3, <1>9, <1>10
<1>12. \A i, x : Fired(i, x)' <=> Fired(i, x) \/ (fires /\ i = n /\ x = e)
  BY <1>4, <1>11 DEF Fired
<1>13. Grown
  <2>1. eventsProcessed <= eventsProcessed'
    BY <1>2, <1>3
  <2> HIDE DEF fires
  <2> QED
    BY <1>11, <2>1 DEF Grown
<1>14. PICK d \in Checks : d = c
  BY <1>8
<1>15. Records'
  <2>1. stack' \in Seq(Checks)
    BY <1>2, <1>3, <1>14, TopReplaced
  <2> QED
    BY <1>2, <1>11, <2>1 DEF IInv, Records
<1>16. Paid(d)'
  <2>1. ASSUME NEW i \in d.due
        PROVE  /\ i \in DOMAIN relations'
               /\ relations'[i].relation.activateAfter <= eventsProcessed'
               /\ \A x \in Edges : Owes(d, i, x)' => x \in relations'[i].fired
    <3>1. /\ i \in DOMAIN relations
          /\ relations[i].relation.activateAfter <= eventsProcessed
          /\ \A x \in Edges : Owes(Top, i, x) => x \in relations[i].fired
      BY <1>2, <1>3, <1>8, <1>14, <2>1 DEF Paid
    <3>2. ASSUME NEW x \in Edges, Owes(d, i, x)' PROVE x \in relations'[i].fired
      <4>1. /\ x \in Top.view.edges /\ MatchesEdge(relations[i].relation, Top.view, x)
            /\ i < n \/ (i = n /\ x \in Top.seen \cup {e})
        BY <1>8, <1>11, <1>14, <3>1, <3>2 DEF Owes, MatchesEdge, Has
      <4>2. CASE i < n \/ x \in Top.seen
        BY <1>11, <3>1, <4>1, <4>2 DEF Owes
      <4>3. CASE i = n /\ x = e
        BY <1>11, <3>1, <4>1, <4>3 DEF matches
      <4> QED
        BY <4>1, <4>2, <4>3
    <3> QED
      BY <1>2, <1>11, <3>1, <3>2
  <2> QED
    BY <2>1 DEF Paid
<1>17. EachOnce'
  <2>1. ASSUME NEW i, NEW x PROVE Once(i, x)'
    <3>1. SetTop(d) /\ ~Runs(Top, i, x) /\ Once(i, x)
      BY <1>2, <1>14 DEF Runs, IInv, EachOnce
    <3>2. Runs(d, i, x) <=> fires /\ i = n /\ x = e
      BY <1>8, <1>14 DEF Runs
    <3>3. /\ Runs(d, i, x) => Running(i, x)' = Running(i, x) \cup {Len(stack)}
          /\ ~Runs(d, i, x) => Running(i, x)' = Running(i, x) \ {Len(stack)}
          /\ Len(stack) \notin Running(i, x)
      BY <1>2, <1>3, <3>1, TopReplaced
    <3>4. Told(i, x)' = Told(i, x) /\ (RaisedFor(i, x)' <=> RaisedFor(i, x))
      BY <1>2 DEF Told, Tells, RaisedFor
    <3>5. CASE ~Runs(d, i, x)
      <4>1. Running(i, x)' = Running(i, x)
        BY <3>3, <3>5
      <4>2. Fired(i, x)' <=> Fired(i, x)
        BY <1>12, <3>2, <3>5
      <4> QED
        BY <3>1, <3>4, <4>1, <4>2, OnceKept
    <3>6. CASE Runs(d, i, x)
      <4>1. ~Fired(i, x) /\ Fired(i, x)'
        BY <1>12, <3>2, <3>6 DEF Fired
      <4>2. Running(i, x) = {} /\ Told(i, x) = {} /\ ~RaisedFor(i, x)
        BY <3>1, <4>1 DEF Once
      <4>3. Running(i, x)' = {Len(stack)}
        BY <3>3, <3>6, <4>2
      <4> QED
        BY <3>4, <4>1, <4>2, <4>3 DEF Once
    <3> QED
      BY <3>5, <3>6
  <2> QED
    BY <2>1 DEF EachOnce
<1>18. SetTop(d) /\ d.kind # "patterns"
  BY <1>2, <1>8, <1>14
<1>19. /\ DOMAIN patterns' = DOMAIN patterns /\ eventsProcessed' \in 0 .. MaxPublishes /\ Latched'
  BY <1>2, InvariantImplies DEF Latched
<1> QED
  BY <1>2, <1>13, <1>15, <1>16, <1>17, <1>18, <1>19, TopStep

(* The check goes on to the next relation: it has looked at every edge.    *)
LEMMA RelationDoneIInv ==
  ASSUME IInv, RelationDone
  PROVE  IInv'
<1> DEFINE n == Top.at
           c == [Top EXCEPT !.at = @ + 1, !.seen = {}]
<1>1. /\ stack # << >> /\ ~Top.handling /\ Top.kind = "relations" /\ Unseen = {}
      /\ SetTop(c)
      /\ UNCHANGED <<graph, patterns, relations, eventsProcessed, patches, raisedFor>>
  BY DEF RelationDone, Walking, Idle
<1>2. Top \in Checks /\ stack \in Seq(Checks) /\ Paid(Top) /\ eventsProcessed \in Nat
  BY <1>1, TopIsCheck DEF IInv, Records
<1>3. /\ c \in Checks /\ c.kind = "relations" /\ c.at = n + 1 /\ c.view = Top.view
      /\ c.due = Top.due /\ c.seen = {} /\ ~c.handling /\ n \in Nat /\ c.due \subseteq Nat
  <2>1. n \in Nat \ {0} /\ n + 1 \in Nat \ {0}
    BY <1>2 DEF Checks
  <2>2. /\ c.kind = Top.kind /\ c.at = n + 1 /\ c.view = Top.view /\ c.due = Top.due
        /\ c.seen = {} /\ c.handling = Top.handling /\ Top.due \subseteq Nat
    BY <1>2 DEF Checks
  <2>3. c \in Checks
    BY <1>2, <2>1 DEF Checks
  <2> QED
    BY <1>1, <2>1, <2>2, <2>3
<1> HIDE DEF c
<1>4. PICK d \in Checks : d = c
  BY <1>3
<1>5. Records'
  <2>1. stack' \in Seq(Checks)
    BY <1>1, <1>2, <1>4, TopReplaced
  <2> QED
    BY <1>1, <2>1 DEF IInv, Records
<1>6. Paid(d)
  <2>1. ASSUME NEW i \in d.due
        PROVE  /\ i \in DOMAIN relations
               /\ relations[i].relation.activateAfter <= eventsProcessed
               /\ \A x \in Edges : Owes(d, i, x) => x \in relations[i].fired
    <3>1. /\ i \in DOMAIN relations /\ i \in Nat
          /\ relations[i].relation.activateAfter <= eventsProcessed
          /\ \A x \in Edges : Owes(Top, i, x) => x \in relations[i].fired
      BY <1>1, <1>2, <1>3, <1>4, <2>1 DEF Paid
    <3>2. ASSUME NEW x \in Edges, Owes(d, i, x) PROVE x \in relations[i].fired
      <4>1. /\ x \in Top.view.edges /\ MatchesEdge(relations[i].relation, Top.view, x)
            /\ i < n + 1
        BY <1>3, <1>4, <3>2 DEF Owes
      <4>2. CASE i < n
        BY <3>1, <4>1, <4>2 DEF Owes
      <4>3. CASE i = n
        <5>1. Active
          BY <3>1, <4>3 DEF Active
        <5>2. x \in Top.seen
          BY <1>1, <4>1, <5>1 DEF Unseen
        <5> QED
          BY <3>1, <4>1, <4>3, <5>2 DEF Owes
      <4> QED
        BY <1>3, <3>1, <4>1, <4>2, <4>3
    <3> QED
      BY <3>1, <3>2
  <2> QED
    BY <2>1 DEF Paid
<1>7. Grown
  BY <1>1, <1>2 DEF Grown
<1>8. Paid(d)'
  BY <1>5, <1>6, <1>7, PaidKept DEF IInv
<1>9. EachOnce'
  <2>1. ASSUME NEW i, NEW e PROVE Once(i, e)'
    <3>1. ~Runs(d, i, e) /\ ~Runs(Top, i, e) /\ SetTop(d)
      BY <1>1, <1>3, <1>4 DEF Runs
    <3>2. Running(i, e)' = Running(i, e) \ {Len(stack)} /\ Len(stack) \notin Running(i, e)
      BY <1>1, <1>2, <3>1, TopReplaced
    <3>3. Running(i, e)' = Running(i, e)
      BY <3>2
    <3>4. /\ Told(i, e)' = Told(i, e)
          /\ RaisedFor(i, e)' <=> RaisedFor(i, e)
          /\ Fired(i, e)' <=> Fired(i, e)
      BY <1>1 DEF Told, Tells, RaisedFor, Fired
    <3> QED
      BY <3>3, <3>4, OnceKept DEF IInv, EachOnce
  <2> QED
    BY <2>1 DEF EachOnce
<1>10. SetTop(d) /\ d.kind # "patterns"
  BY <1>1, <1>3, <1>4
<1>11. /\ DOMAIN patterns' = DOMAIN patterns /\ eventsProcessed' \in 0 .. MaxPublishes /\ Latched'
  BY <1>1, InvariantImplies DEF Latched
<1> QED
  BY <1>1, <1>5, <1>7, <1>8, <1>9, <1>10, <1>11, TopStep

(* The handler in progress, and what it would propose.                     *)
LEMMA TriggerKnown ==
  ASSUME IInv, Handling
  PROVE  /\ stack # << >> /\ Top.handling
         /\ Trigger \in {"event", "pattern", "relation"} \X Nat
         /\ About \in Nat \cup Edges \cup {NoEdge}
         /\ \A i, e : Runs(Top, i, e) <=> Trigger = <<"relation", i>> /\ About = e
<1>1. stack # << >> /\ Top.handling
  BY DEF Handling, Idle
<1>2. /\ Top \in Checks /\ patterns \in Seq(PatternTriggers)
      /\ Top.kind = "patterns" => Top.at - 1 \in DOMAIN patterns
  BY <1>1, TopIsCheck DEF IInv, Records
<1>3. CASE Top.kind = "patterns"
  <2> DEFINE n == Top.at - 1
  <2>1. n \in DOMAIN patterns /\ n \in Nat
    BY <1>2, <1>3, LenProperties
  <2>2. patterns[n] \in PatternTriggers
    BY <1>2, <2>1, StackElement
  <2>3. Trigger = <<"pattern", n>> /\ About = patterns[n].fires
    BY <1>3 DEF Trigger, About
  <2> HIDE DEF n
  <2>4. patterns[n].fires \in Nat
    BY <2>2 DEF PatternTriggers
  <2> QED
    BY <1>1, <1>3, <2>1, <2>3, <2>4 DEF Runs
<1>4. CASE Top.kind = "relations"
  <2>1. Trigger = <<"relation", Top.at>> /\ About = Top.edge
    BY <1>4 DEF Trigger, About
  <2>2. Top.at \in Nat /\ Top.edge \in Edges \cup {NoEdge}
    BY <1>2 DEF Checks
  <2>3. \A i, e : Runs(Top, i, e) <=> Top.at = i /\ Top.edge = e
    BY <1>1, <1>4 DEF Runs
  <2> QED
    BY <1>1, <2>1, <2>2, <2>3
<1> QED
  BY <1>2, <1>3, <1>4 DEF Checks

(* The handler that ended is one of none or of one edge, whose patch or    *)
(* exception takes its place.                                              *)
LEMMA HandlerEnds ==
  ASSUME NEW i, NEW e, Once(i, e), NEW n, NEW m,
         Running(i, e)' = Running(i, e) \ {n}, Fired(i, e)' <=> Fired(i, e),
         n \in Running(i, e) => \/ Told(i, e)' = {m} /\ ~RaisedFor(i, e)'
                                \/ Told(i, e)' = {} /\ RaisedFor(i, e)',
         n \notin Running(i, e) => Told(i, e)' = Told(i, e) /\ (RaisedFor(i, e)' <=> RaisedFor(i, e))
  PROVE  Once(i, e)'
<1>1. CASE n \in Running(i, e)
  <2>1. Running(i, e)' = {} /\ Fired(i, e)
    BY <1>1 DEF Once
  <2> QED
    BY <1>1, <2>1 DEF Once
<1>2. CASE n \notin Running(i, e)
  <2>1. Running(i, e)' = Running(i, e)
    BY <1>2
  <2> QED
    BY <1>2, <2>1, OnceKept
<1> QED
  BY <1>1, <1>2

(* The handler returns: its patch is proposed.                             *)
LEMMA HandlerReturnsIInv ==
  ASSUME IInv, HandlerReturns
  PROVE  IInv'
<1> DEFINE c == [Top EXCEPT !.handling = FALSE]
           n == Len(stack)
           m == Len(patches) + 1
<1>1. /\ Handling /\ patches' = Propose(Trigger, About) /\ SetTop(c)
      /\ UNCHANGED <<graph, patterns, relations, eventsProcessed, raisedFor>>
  BY DEF HandlerReturns
<1>2. /\ stack # << >> /\ Top \in Checks /\ stack \in Seq(Checks) /\ Paid(Top)
      /\ eventsProcessed \in Nat
      /\ patches \in Seq(Patches)
  BY <1>1, TriggerKnown, TopIsCheck DEF IInv, Records
<1>3. /\ c \in Checks /\ ~c.handling /\ c.kind = Top.kind /\ c.view = Top.view /\ c.at = Top.at
      /\ c.seen = Top.seen /\ c.due = Top.due
  BY <1>2 DEF Checks
<1> HIDE DEF c
<1>4. PICK d \in Checks : d = c
  BY <1>3
<1>5. Grown
  BY <1>1, <1>2 DEF Grown
<1>6. PICK by, about : by = Trigger /\ about = About
  OBVIOUS
<1>7. /\ patches' = Propose(by, about)
      /\ by \in {"event", "pattern", "relation"} \X Nat /\ about \in Nat \cup Edges \cup {NoEdge}
      /\ \A i, e : Runs(Top, i, e) <=> by = <<"relation", i>> /\ about = e
  BY <1>1, <1>6, TriggerKnown
<1>8. /\ patches' \in Seq(Patches)
      /\ \A i, e : by = <<"relation", i>> /\ about = e => Told(i, e)' = Told(i, e) \cup {m}
      /\ \A i, e : ~(by = <<"relation", i>> /\ about = e) => Told(i, e)' = Told(i, e)
  BY <1>2, <1>7, PatchProposed
<1>9. Records'
  <2>1. stack' \in Seq(Checks)
    BY <1>1, <1>2, <1>4, TopReplaced
  <2> QED
    BY <1>1, <1>8, <2>1 DEF IInv, Records
<1>10. Paid(d)'
  <2>1. Paid(d)
    BY <1>2, <1>3, <1>4, SameDebt
  <2> QED
    BY <1>5, <1>9, <2>1, PaidKept DEF IInv
<1> HIDE DEF n, m
<1>11. EachOnce'
  <2>1. ASSUME NEW i, NEW e PROVE Once(i, e)'
    <3>1. ~Runs(d, i, e) /\ SetTop(d) /\ Once(i, e)
      BY <1>1, <1>3, <1>4 DEF Runs, IInv, EachOnce
    <3>2. Running(i, e)' = Running(i, e) \ {n} /\ (n \in Running(i, e) <=> Runs(Top, i, e))
      BY <1>2, <3>1, TopReplaced DEF n
    <3>3. (RaisedFor(i, e)' <=> RaisedFor(i, e)) /\ (Fired(i, e)' <=> Fired(i, e))
      BY <1>1 DEF RaisedFor, Fired
    <3>4. n \in Running(i, e) => Told(i, e)' = {m} /\ ~RaisedFor(i, e)'
      BY <1>7, <1>8, <3>1, <3>2, <3>3 DEF Once
    <3>5. n \notin Running(i, e) => Told(i, e)' = Told(i, e)
      BY <1>7, <1>8, <3>2
    <3> QED
      BY <3>1, <3>2, <3>3, <3>4, <3>5, HandlerEnds
  <2> QED
    BY <2>1 DEF EachOnce
<1>12. SetTop(d) /\ ~d.handling
  BY <1>1, <1>3, <1>4
<1>13. /\ DOMAIN patterns' = DOMAIN patterns /\ eventsProcessed' \in 0 .. MaxPublishes /\ Latched'
  BY <1>1, InvariantImplies DEF Latched
<1> QED
  BY <1>2, <1>5, <1>9, <1>10, <1>11, <1>12, <1>13, TopStep

(* What the handler that raised was about.                                 *)
LEMMA RaisesAbout ==
  ASSUME IInv, Handling, raisedFor' = raisedFor \cup {<<Trigger, About>>},
         UNCHANGED <<relations, patches>>, NEW i, NEW e,
         Running(i, e)' = Running(i, e) \ {Len(stack)},
         Len(stack) \in Running(i, e) <=> Runs(Top, i, e)
  PROVE  Once(i, e)'
<1> DEFINE n == Len(stack)
<1>1. RaisedFor(i, e)' <=> RaisedFor(i, e) \/ Runs(Top, i, e)
  BY TriggerKnown DEF RaisedFor
<1>2. Told(i, e)' = Told(i, e) /\ (Fired(i, e)' <=> Fired(i, e))
  BY DEF Told, Tells, Fired
<1>3. Once(i, e)
  BY DEF IInv, EachOnce
<1>4. n \in Running(i, e) => Told(i, e)' = {} /\ RaisedFor(i, e)'
  BY <1>1, <1>2, <1>3 DEF Once
<1>5. n \notin Running(i, e) => Told(i, e)' = Told(i, e) /\ (RaisedFor(i, e)' <=> RaisedFor(i, e))
  BY <1>1, <1>2
<1> HIDE DEF n
<1>6. Running(i, e)' = Running(i, e) \ {n}
  BY DEF n
<1> QED
  BY <1>2, <1>3, <1>4, <1>5, <1>6, HandlerEnds

(* It raises: the exception is swallowed.                                  *)
LEMMA HandlerRaisesIInv ==
  ASSUME IInv, HandlerRaises
  PROVE  IInv'
<1> DEFINE c == [Top EXCEPT !.handling = FALSE]
<1>1. /\ Handling /\ raisedFor' = raisedFor \cup {<<Trigger, About>>} /\ SetTop(c)
      /\ UNCHANGED <<graph, patterns, relations, eventsProcessed, patches>>
  BY DEF HandlerRaises
<1>2. /\ stack # << >> /\ Top \in Checks /\ stack \in Seq(Checks) /\ Paid(Top)
      /\ eventsProcessed \in Nat
  BY <1>1, TriggerKnown, TopIsCheck DEF IInv, Records
<1>3. /\ c \in Checks /\ ~c.handling /\ c.kind = Top.kind /\ c.view = Top.view /\ c.at = Top.at
      /\ c.seen = Top.seen /\ c.due = Top.due
  BY <1>2 DEF Checks
<1> HIDE DEF c
<1>4. PICK d \in Checks : d = c
  BY <1>3
<1>5. Grown
  BY <1>1, <1>2 DEF Grown
<1>6. Records'
  <2>1. stack' \in Seq(Checks)
    BY <1>1, <1>2, <1>4, TopReplaced
  <2> QED
    BY <1>1, <2>1 DEF IInv, Records
<1>7. Paid(d)'
  <2>1. Paid(d)
    BY <1>2, <1>3, <1>4, SameDebt
  <2> QED
    BY <1>5, <1>6, <2>1, PaidKept DEF IInv
<1>8. EachOnce'
  <2>1. ASSUME NEW i, NEW e PROVE Once(i, e)'
    <3>1. ~Runs(d, i, e) /\ SetTop(d)
      BY <1>1, <1>3, <1>4 DEF Runs
    <3>2. /\ Running(i, e)' = Running(i, e) \ {Len(stack)}
          /\ Len(stack) \in Running(i, e) <=> Runs(Top, i, e)
      BY <1>2, <3>1, TopReplaced
    <3> QED
      BY <1>1, <3>2, RaisesAbout
  <2> QED
    BY <2>1 DEF EachOnce
<1>9. SetTop(d) /\ ~d.handling
  BY <1>1, <1>3, <1>4
<1>10. /\ DOMAIN patterns' = DOMAIN patterns /\ eventsProcessed' \in 0 .. MaxPublishes /\ Latched'
  BY <1>1, InvariantImplies DEF Latched
<1> QED
  BY <1>2, <1>5, <1>6, <1>7, <1>8, <1>9, <1>10, TopStep

(* It raises, and takes the check with it.                                 *)
LEMMA SpanEndRaisesIInv ==
  ASSUME IInv, SpanEndRaises
  PROVE  IInv'
<1>1. /\ Handling /\ raisedFor' = raisedFor \cup {<<Trigger, About>>} /\ stack' = Front(stack)
      /\ UNCHANGED <<graph, patterns, relations, eventsProcessed, patches>>
  BY DEF SpanEndRaises, Leaves
<1>2. stack # << >> /\ stack \in Seq(Checks)
  BY <1>1, TriggerKnown DEF IInv, Records
<1>3. Records'
  <2>1. stack' \in Seq(Checks)
    BY <1>1, <1>2, TopPopped
  <2> QED
    BY <1>1, <2>1 DEF IInv, Records
<1>4. EachOnce'
  <2>1. ASSUME NEW i, NEW e PROVE Once(i, e)'
    <3>1. /\ Running(i, e)' = Running(i, e) \ {Len(stack)}
          /\ Len(stack) \in Running(i, e) <=> Runs(Top, i, e)
      BY <1>1, <1>2, TopPopped
    <3> QED
      BY <1>1, <3>1, RaisesAbout
  <2> QED
    BY <2>1 DEF EachOnce
<1> QED
  BY <1>1, <1>2, <1>3, <1>4, TopGone

(* The check is over, between two handlers.                                *)
LEMMA CheckEndsIInv ==
  ASSUME IInv, CheckEnds
  PROVE  IInv'
<1>1. /\ stack # << >> /\ ~Top.handling /\ stack' = Front(stack)
      /\ UNCHANGED <<graph, patterns, relations, eventsProcessed, patches, raisedFor>>
  BY DEF CheckEnds, Walking, Idle, Leaves
<1>2. stack \in Seq(Checks)
  BY DEF IInv, Records
<1>3. Records'
  <2>1. stack' \in Seq(Checks)
    BY <1>1, <1>2, TopPopped
  <2> QED
    BY <1>1, <2>1 DEF IInv, Records
<1>4. EachOnce'
  <2>1. ASSUME NEW i, NEW e PROVE Once(i, e)'
    <3>1. Running(i, e)' = Running(i, e) \ {Len(stack)} /\ Len(stack) \notin Running(i, e)
      <4>1. ~Runs(Top, i, e)
        BY <1>1 DEF Runs
      <4> QED
        BY <1>1, <1>2, <4>1, TopPopped
    <3>2. Running(i, e)' = Running(i, e)
      BY <3>1
    <3>3. /\ Told(i, e)' = Told(i, e)
          /\ RaisedFor(i, e)' <=> RaisedFor(i, e)
          /\ Fired(i, e)' <=> Fired(i, e)
      BY <1>1 DEF Told, Tells, RaisedFor, Fired
    <3> QED
      BY <3>2, <3>3, OnceKept DEF IInv, EachOnce
  <2> QED
    BY <2>1 DEF EachOnce
<1> QED
  BY <1>1, <1>2, <1>3, <1>4, TopGone

-----------------------------------------------------------------------------
LEMMA AlwaysIInv == Spec => []IInv
<1>1. Init => IInv
  BY InitIInv
<1>2. IInv /\ [Next]_vars => IInv'
  <2> SUFFICES ASSUME IInv, [Next]_vars PROVE IInv'
    OBVIOUS
  <2>1. CASE UNCHANGED vars
    <3>1. /\ UNCHANGED <<graph, patterns, relations, eventsProcessed, stack, patches, raisedFor>>
          /\ eventsProcessed \in Nat
      BY <2>1 DEF vars, IInv, Records
    <3>2. Records' /\ Latched' /\ Grown
      BY <3>1, InvariantImplies DEF IInv, Records, Latched, Grown
    <3>3. \A i, e : (Fired(i, e)' <=> Fired(i, e)) /\ Told(i, e)' = Told(i, e)
      BY <3>1 DEF Fired, Told, Tells
    <3> QED
      BY <3>1, <3>2, <3>3, InvariantImplies, StackStays
  <2> QED
    BY <2>1, RegisterIInv, PublishIInv, ChangeIInv, SweepIInv, CheckBeginsIInv, PatternStepIInv,
       EdgeStepIInv, RelationDoneIInv, HandlerReturnsIInv, HandlerRaisesIInv, SpanEndRaisesIInv,
       CheckEndsIInv DEF Next
<1> QED
  BY <1>1, <1>2, PTL DEF Spec

-----------------------------------------------------------------------------
(* The latches: a pattern check that no other one disturbed has set those  *)
(* it has walked to what it saw.                                           *)
Saw(i, view) == patterns[i].matched = Matches(patterns[i].pattern, view)

Undisturbed(k) == stack[k].kind = "patterns" /\ ~stack[k].nested

LatchKnown ==
  /\ last.walked \in Nat /\ last.walked <= Len(patterns)
  /\ (\A k \in DOMAIN stack : stack[k].kind # "patterns") /\ ~last.nested =>
       \A i \in DOMAIN patterns : i <= last.walked => Saw(i, last.view)
  /\ \A k \in DOMAIN stack :
       /\ stack[k].kind = "patterns" => stack[k].at <= Len(patterns) + 1
       /\ Undisturbed(k) =>
            /\ \A j \in DOMAIN stack : k < j => stack[j].kind # "patterns"
            /\ \A i \in DOMAIN patterns : i < stack[k].at => Saw(i, stack[k].view)

(* Steps that neither latch nor begin or end a check.                      *)
LEMMA LatchStays ==
  ASSUME LatchKnown, UNCHANGED <<patterns, last>>, DOMAIN stack' = DOMAIN stack,
         \A k \in DOMAIN stack :
           /\ stack'[k].kind = stack[k].kind /\ stack'[k].view = stack[k].view
           /\ stack'[k].nested = stack[k].nested
           /\ stack[k].kind = "patterns" => stack'[k].at = stack[k].at
  PROVE  LatchKnown'
<1>1. \A i, view : Saw(i, view)' <=> Saw(i, view)
  BY DEF Saw, Matches
<1>2. \A k \in DOMAIN stack : Undisturbed(k)' <=> Undisturbed(k)
  BY DEF Undisturbed
<1> QED
  BY <1>1, <1>2 DEF LatchKnown, Undisturbed, Saw

(* A step of the innermost check that is not one from pattern to pattern.  *)
LEMMA LatchOnTop ==
  ASSUME IInv, LatchKnown, UNCHANGED <<patterns, last>>, stack # << >>,
         NEW c \in Checks, SetTop(c), c.kind = Top.kind, c.view = Top.view, c.nested = Top.nested,
         Top.kind = "patterns" => c.at = Top.at
  PROVE  LatchKnown'
<1>1. /\ DOMAIN stack' = DOMAIN stack /\ stack'[Len(stack)] = c /\ Top = stack[Len(stack)]
      /\ \A k \in DOMAIN stack : k # Len(stack) => stack'[k] = stack[k]
  BY TopReplaced DEF IInv, Records
<1> QED
  BY <1>1, LatchStays

LEMMA InitLatch == Init => LatchKnown
BY DEF Init, LatchKnown

LEMMA RegisterLatch ==
  ASSUME IInv, LatchKnown, Register
  PROVE  LatchKnown'
<1>1. /\ UNCHANGED <<stack, last>> /\ patterns \in Seq(PatternTriggers)
      /\ stack \in Seq(Checks) /\ Len(patterns) \in Nat
  BY LenProperties DEF Register, IInv, Records
<1>2. CASE UNCHANGED patterns
  BY <1>1, <1>2, LatchStays
<1>3. CASE \E p \in Patterns :
             patterns' = Append(patterns, [pattern |-> p, matched |-> FALSE, fires |-> 0])
  <2>1. PICK p \in Patterns :
          patterns' = Append(patterns, [pattern |-> p, matched |-> FALSE, fires |-> 0])
    BY <1>3
  <2> DEFINE t == [pattern |-> p, matched |-> FALSE, fires |-> 0]
             n == Len(patterns)
  <2>2. t \in PatternTriggers
    BY DEF PatternTriggers
  <2> HIDE DEF t
  <2>3. /\ DOMAIN patterns' = DOMAIN patterns \cup {n + 1} /\ Len(patterns') = n + 1
        /\ \A i \in DOMAIN patterns : patterns'[i] = patterns[i]
    BY <1>1, <2>1, <2>2, AppendProperties, LenProperties DEF t
  <2>4. ASSUME NEW k \in DOMAIN stack PROVE stack[k].at \in Nat
    <3>1. stack[k] \in Checks
      BY <1>1, StackElement
    <3> QED
      BY <3>1 DEF Checks
  <2> HIDE DEF n
  <2>5. n \in Nat
    BY <1>1 DEF n
  <2>6. \A i \in DOMAIN patterns : \A view : Saw(i, view)' <=> Saw(i, view)
    BY <2>3 DEF Saw, Matches
  <2>7. \A k \in DOMAIN stack : stack[k].kind = "patterns" => stack[k].at <= n + 1
    BY DEF LatchKnown, n
  <2>8. last.walked \in Nat /\ last.walked <= n
    BY DEF LatchKnown, n
  <2>9. /\ (\A k \in DOMAIN stack : stack[k].kind # "patterns") /\ ~last.nested =>
             \A i \in DOMAIN patterns' : i <= last.walked => Saw(i, last.view)'
        /\ \A k \in DOMAIN stack : Undisturbed(k) =>
             \A i \in DOMAIN patterns' : i < stack[k].at => Saw(i, stack[k].view)'
    <3>1. ~(n + 1 <= last.walked)
      BY <2>5, <2>8
    <3>2. ASSUME NEW k \in DOMAIN stack, Undisturbed(k), NEW i \in DOMAIN patterns', i < stack[k].at
          PROVE  Saw(i, stack[k].view)'
      <4>1. stack[k].at \in Nat /\ stack[k].at <= n + 1
        BY <2>4, <2>7, <3>2 DEF Undisturbed
      <4>2. i # n + 1
        BY <2>5, <3>2, <4>1
      <4>3. i \in DOMAIN patterns
        BY <2>3, <4>2
      <4>4. Saw(i, stack[k].view)
        BY <3>2, <4>3 DEF LatchKnown
      <4>5. stack'[k].view = stack[k].view
        BY <1>1
      <4> QED
        BY <2>6, <4>3, <4>4, <4>5
    <3>3. ASSUME \A k \in DOMAIN stack : stack[k].kind # "patterns", ~last.nested,
                 NEW i \in DOMAIN patterns', i <= last.walked
          PROVE  Saw(i, last.view)'
      <4>1. i \in DOMAIN patterns
        BY <2>3, <3>1, <3>3
      <4>2. Saw(i, last.view) /\ last' = last
        BY <1>1, <3>3, <4>1 DEF LatchKnown
      <4> QED
        BY <2>6, <4>1, <4>2
    <3> QED
      BY <3>2, <3>3
  <2>10. \A k \in DOMAIN stack : stack[k].kind = "patterns" => stack[k].at <= (n + 1) + 1
    BY <2>4, <2>5, <2>7
  <2>11. last.walked <= n + 1
    BY <2>5, <2>8
  <2> QED
    BY <1>1, <2>3, <2>8, <2>9, <2>10, <2>11 DEF LatchKnown, Undisturbed, Saw
<1> QED
  BY <1>2, <1>3 DEF Register

(* A pattern check that begins disturbs those around it.                   *)
LEMMA CheckBeginsLatch ==
  ASSUME IInv, LatchKnown, CheckBegins
  PROVE  LatchKnown'
<1>1. PICK kind \in {"patterns", "relations"} :
        stack' = Append([i \in DOMAIN stack |->
                           [stack[i] EXCEPT !.nested = @ \/ kind = "patterns"]], Check(kind))
  BY DEF CheckBegins
<1> DEFINE t == [i \in DOMAIN stack |-> [stack[i] EXCEPT !.nested = @ \/ kind = "patterns"]]
           c == Check(kind)
           n == Len(stack) + 1
<1>2. /\ UNCHANGED <<patterns, last>> /\ stack \in Seq(Checks) /\ Len(stack) \in Nat
      /\ DOMAIN stack = 1 .. Len(stack)
      /\ Len(patterns) \in Nat /\ DOMAIN patterns = 1 .. Len(patterns)
  BY LenProperties DEF CheckBegins, IInv, Records
<1>3. ASSUME NEW k \in DOMAIN stack
      PROVE  /\ t[k].kind = stack[k].kind /\ t[k].view = stack[k].view /\ t[k].at = stack[k].at
             /\ t[k].nested = (stack[k].nested \/ kind = "patterns")
             /\ t[k] \in Checks
  <2>1. stack[k] \in Checks
    BY <1>2, StackElement
  <2> QED
    BY <2>1 DEF Checks
<1>4. c.kind = kind /\ c.at = 1
  BY DEF Check
<1>5. t \in Seq(Checks) /\ Len(t) = Len(stack) /\ DOMAIN t = DOMAIN stack
  <2>1. t = [i \in DOMAIN stack |-> t[i]]
    OBVIOUS
  <2> HIDE DEF t
  <2> QED
    BY <1>2, <1>3, <2>1, MappedSequence
<1>6. stack' = Append(t, c)
  BY <1>1
<1> HIDE DEF t, c
<1>7. /\ DOMAIN stack' = DOMAIN stack \cup {n}
      /\ \A k \in DOMAIN stack : stack'[k] = t[k] /\ k < n
      /\ stack'[n] = c
      /\ n \notin DOMAIN stack
  <2>1. /\ DOMAIN stack' = 1 .. Len(t) + 1
        /\ \A k \in 1 .. Len(t) : stack'[k] = t[k]
        /\ stack'[Len(t) + 1] = c
    BY <1>5, <1>6, AppendProperties, LenProperties
  <2> QED
    BY <1>2, <1>5, <2>1
<1> HIDE DEF n
<1>8. \A i, view : Saw(i, view)' <=> Saw(i, view)
  BY <1>2 DEF Saw, Matches
<1>9. \A k \in DOMAIN stack : Undisturbed(k)' <=> Undisturbed(k) /\ kind # "patterns"
  BY <1>3, <1>7 DEF Undisturbed
<1>10. \A i \in DOMAIN patterns : ~(i < 1)
  BY <1>2
<1>11. 1 <= Len(patterns) + 1
  BY <1>2
<1>12. (\A k \in DOMAIN stack' : stack'[k].kind # "patterns") => \A k \in DOMAIN stack : stack[k].kind # "patterns"
  BY <1>3, <1>7
<1>13. ASSUME NEW k \in DOMAIN stack'
       PROVE  /\ stack'[k].kind = "patterns" => stack'[k].at <= Len(patterns') + 1
              /\ Undisturbed(k)' =>
                   /\ \A j \in DOMAIN stack' : k < j => stack'[j].kind # "patterns"
                   /\ \A i \in DOMAIN patterns' : i < stack'[k].at => Saw(i, stack[k].view)'
  <2>1. CASE k = n
    <3>1. \A j \in DOMAIN stack' : ~(n < j)
      <4>1. \A j \in DOMAIN stack : j < n /\ j \in Nat
        BY <1>2, <1>7
      <4>2. n \in Nat
        BY <1>2 DEF n
      <4> QED
        BY <1>7, <4>1, <4>2
    <3> QED
      BY <1>2, <1>4, <1>7, <1>10, <1>11, <2>1, <3>1
  <2>2. CASE k \in DOMAIN stack
    <3>1. /\ stack'[k].kind = stack[k].kind /\ stack'[k].at = stack[k].at
          /\ stack'[k].view = stack[k].view
      BY <1>3, <1>7, <2>2
    <3>2. stack[k].kind = "patterns" => stack[k].at <= Len(patterns) + 1
      BY <2>2 DEF LatchKnown
    <3>3. ASSUME Undisturbed(k), kind # "patterns"
          PROVE  /\ \A j \in DOMAIN stack' : k < j => stack'[j].kind # "patterns"
                 /\ \A i \in DOMAIN patterns : i < stack[k].at => Saw(i, stack[k].view)
      BY <1>3, <1>4, <1>7, <2>2, <3>3 DEF LatchKnown
    <3>4. \A i : Saw(i, stack[k].view) => Saw(i, stack[k].view)'
      BY <1>2, <3>1 DEF Saw, Matches
    <3>5. DOMAIN patterns' = DOMAIN patterns /\ Len(patterns') = Len(patterns)
      BY <1>2
    <3>6. Undisturbed(k)' => Undisturbed(k) /\ kind # "patterns"
      BY <1>9, <2>2
    <3> HIDE DEF n
    <3> QED
      BY <3>1, <3>2, <3>3, <3>4, <3>5, <3>6
  <2> QED
    BY <1>7, <2>1, <2>2
<1>14. /\ last'.walked \in Nat /\ last'.walked <= Len(patterns')
       /\ (\A k \in DOMAIN stack' : stack'[k].kind # "patterns") /\ ~last'.nested =>
            \A i \in DOMAIN patterns' : i <= last'.walked => Saw(i, last.view)'
  <2>1. \A i : Saw(i, last.view) => Saw(i, last.view)'
    BY <1>2 DEF Saw, Matches
  <2> QED
    BY <1>2, <1>12, <2>1 DEF LatchKnown
<1> QED
  BY <1>13, <1>14 DEF LatchKnown

(* The pattern the check is at is latched to what the check sees of it.    *)
LEMMA PatternStepLatch ==
  ASSUME IInv, LatchKnown, PatternStep
  PROVE  LatchKnown'
<1> DEFINE n == Top.at
           now == Matches(patterns[n].pattern, Top.view)
           fires == now /\ ~patterns[n].matched
           c == [Top EXCEPT !.at = @ + 1, !.handling = fires]
           m == Len(stack)
<1>1. /\ stack # << >> /\ Top.kind = "patterns" /\ n <= Len(patterns)
      /\ patterns' = [patterns EXCEPT ![n].matched = now,
                                      ![n].fires = IF fires THEN @ + 1 ELSE @]
      /\ SetTop(c) /\ last' = last
  BY DEF PatternStep, Walking, Idle
<1>2. /\ Top \in Checks /\ Top = stack[m] /\ m \in DOMAIN stack
      /\ patterns \in Seq(PatternTriggers) /\ stack \in Seq(Checks)
      /\ n \in Nat \ {0} /\ Len(patterns) \in Nat /\ DOMAIN patterns = 1 .. Len(patterns)
      /\ m \in Nat /\ DOMAIN stack = 1 .. m
  BY <1>1, TopIsCheck, LenProperties DEF IInv, Records, Checks
<1>3. n \in DOMAIN patterns
  BY <1>1, <1>2
<1>4. patterns[n] \in PatternTriggers /\ now \in BOOLEAN /\ fires \in BOOLEAN
  BY <1>2, <1>3, StackElement DEF Matches
<1>5. /\ DOMAIN patterns' = DOMAIN patterns
      /\ \A i \in DOMAIN patterns : i # n => patterns'[i] = patterns[i]
      /\ patterns'[n].matched = now /\ patterns'[n].pattern = patterns[n].pattern
  <2> HIDE DEF now, fires
  <2> QED
    BY <1>1, <1>3, <1>4 DEF PatternTriggers
<1>6. /\ c \in Checks /\ c.kind = "patterns" /\ c.at = n + 1 /\ c.view = Top.view
      /\ c.nested = Top.nested
  <2> HIDE DEF fires
  <2>1. n + 1 \in Nat \ {0}
    BY <1>2
  <2> QED
    BY <1>1, <1>2, <1>4, <2>1 DEF Checks
<1> HIDE DEF c
<1>7. /\ DOMAIN stack' = DOMAIN stack /\ stack'[m] = c
      /\ \A k \in DOMAIN stack : k # m => stack'[k] = stack[k]
  <2>1. PICK d \in Checks : d = c
    BY <1>6
  <2> QED
    BY <1>1, <1>2, <2>1, TopReplaced
<1>8. Len(patterns') = Len(patterns)
  BY <1>2, <1>5, PatternStepIInv, LenProperties DEF IInv, Records
<1>9. PICK top \in DOMAIN stack : top = m
  BY <1>2
<1>10. PICK p \in DOMAIN patterns : p = n
  BY <1>3
<1>11. /\ Top = stack[top] /\ top \in Nat /\ DOMAIN stack = 1 .. top
       /\ p \in Nat \ {0} /\ Top.at = p /\ p <= Len(patterns)
       /\ stack'[top] = c /\ c.at = p + 1
       /\ \A k \in DOMAIN stack : k # top => stack'[k] = stack[k]
       /\ \A i \in DOMAIN patterns : i # p => patterns'[i] = patterns[i]
       /\ patterns'[p].matched = Matches(patterns[p].pattern, Top.view)
       /\ patterns'[p].pattern = patterns[p].pattern
  BY <1>1, <1>2, <1>5, <1>6, <1>7, <1>9, <1>10
<1>12. /\ Top.kind = "patterns" /\ c.kind = "patterns" /\ c.view = Top.view
       /\ c.nested = Top.nested /\ DOMAIN stack' = DOMAIN stack /\ DOMAIN patterns' = DOMAIN patterns
       /\ Len(patterns) \in Nat /\ DOMAIN patterns = 1 .. Len(patterns)
  BY <1>1, <1>2, <1>5, <1>6, <1>7
<1> HIDE DEF m, n, now, fires
<1>13. ASSUME NEW k \in DOMAIN stack, k # top PROVE ~Undisturbed(k)'
  <2>1. k < top /\ k \in Nat
    BY <1>11, <1>12, <1>13
  <2>2. ~Undisturbed(k)
    BY <1>11, <1>12, <2>1 DEF LatchKnown
  <2> QED
    BY <1>11, <1>12, <1>13, <2>2 DEF Undisturbed
<1>14. stack[top].at <= Len(patterns) + 1 /\ p + 1 <= Len(patterns) + 1
  BY <1>11, <1>12 DEF LatchKnown
<1>15. ASSUME Undisturbed(top)'
       PROVE  /\ \A j \in DOMAIN stack : ~(top < j)
              /\ \A i \in DOMAIN patterns : i < p + 1 => Saw(i, stack[top].view)'
  <2>1. Undisturbed(top)
    BY <1>11, <1>12, <1>15 DEF Undisturbed
  <2>2. ASSUME NEW i \in DOMAIN patterns, i < p PROVE Saw(i, stack[top].view)'
    <3>1. Saw(i, stack[top].view)
      BY <1>11, <1>12, <2>1, <2>2 DEF LatchKnown
    <3>2. patterns'[i] = patterns[i] /\ stack'[top].view = stack[top].view
      BY <1>11, <1>12, <2>2
    <3> QED
      BY <3>1, <3>2 DEF Saw, Matches
  <2>3. Saw(p, stack[top].view)'
    <3>1. /\ patterns'[p].matched = Matches(patterns[p].pattern, Top.view) /\ patterns'[p].pattern = patterns[p].pattern
          /\ stack'[top].view = Top.view
      BY <1>11, <1>12
    <3> QED
      BY <3>1 DEF Saw, Matches
  <2>4. \A i \in DOMAIN patterns : i < p + 1 => i < p \/ i = p
    BY <1>11, <1>12
  <2>5. \A j \in DOMAIN stack : ~(top < j)
    BY <1>11, <1>12
  <2> QED
    BY <2>2, <2>3, <2>4, <2>5
<1>16. \A k \in DOMAIN stack' :
         /\ stack'[k].kind = "patterns" => stack'[k].at <= Len(patterns') + 1
         /\ Undisturbed(k)' =>
              /\ \A j \in DOMAIN stack' : k < j => stack'[j].kind # "patterns"
              /\ \A i \in DOMAIN patterns' : i < stack'[k].at => Saw(i, stack[k].view)'
  <2>1. ASSUME NEW k \in DOMAIN stack, k # top
        PROVE  stack'[k].kind = "patterns" => stack'[k].at <= Len(patterns') + 1
    BY <1>8, <1>11, <1>12, <2>1 DEF LatchKnown
  <2> QED
    BY <1>8, <1>11, <1>12, <1>13, <1>14, <1>15, <2>1
<1>17. ~(\A k \in DOMAIN stack' : stack'[k].kind # "patterns")
  BY <1>11, <1>12
<1>18. last'.walked \in Nat /\ last'.walked <= Len(patterns')
  BY <1>1, <1>8 DEF LatchKnown
<1> QED
  BY <1>16, <1>17, <1>18 DEF LatchKnown

(* The innermost check is over: what it walked is what the latches tell.   *)
LEMMA LeavesLatch ==
  ASSUME IInv, LatchKnown, UNCHANGED patterns, stack # << >>, NEW walked \in Nat,
         Leaves(walked), Top.kind = "patterns" => walked < Top.at /\ walked <= Len(patterns)
  PROVE  LatchKnown'
<1> DEFINE m == Len(stack)
<1>1. /\ DOMAIN stack' \subseteq DOMAIN stack /\ Top = stack[m] /\ m \in DOMAIN stack
      /\ \A k \in DOMAIN stack' : stack'[k] = stack[k]
      /\ Top \in Checks
  BY TopPopped DEF IInv, Records, Leaves
<1>2. m \in Nat /\ DOMAIN stack = 1 .. m /\ stack' = SubSeq(stack, 1, m - 1)
  BY LenProperties DEF IInv, Records, Leaves, Front
<1>3. DOMAIN stack' = 1 .. m - 1
  <2>1. stack \in Seq(Checks) /\ m # 0
    BY <1>1, <1>2 DEF IInv, Records
  <2> QED
    BY <2>1, StackPop, LenProperties DEF Leaves
<1> HIDE DEF m
<1>4. \A k \in DOMAIN stack : k # m => k \in DOMAIN stack'
  BY <1>2, <1>3
<1>5. last' = IF Top.kind = "patterns" /\ \A k \in DOMAIN stack' : stack'[k].kind # "patterns"
              THEN [view |-> Top.view, walked |-> walked, nested |-> Top.nested]
              ELSE last
  BY DEF Leaves, Range
<1>6. last'.walked \in Nat /\ last'.walked <= Len(patterns')
  BY <1>5 DEF LatchKnown
<1>7. ASSUME \A k \in DOMAIN stack' : stack'[k].kind # "patterns", ~last'.nested,
             NEW i \in DOMAIN patterns, i <= last'.walked
      PROVE  Saw(i, last.view)'
  <2>1. CASE Top.kind = "patterns"
    <3>1. last'.view = Top.view /\ last'.walked = walked /\ ~Top.nested
      BY <1>5, <1>7, <2>1
    <3>2. i < Top.at
      <4>1. i \in Nat /\ Top.at \in Nat
        BY <1>1, LenProperties DEF IInv, Records, Checks
      <4> QED
        BY <1>7, <2>1, <3>1, <4>1
    <3>3. Saw(i, stack[m].view)
      BY <1>1, <2>1, <3>1, <3>2 DEF LatchKnown, Undisturbed
    <3> QED
      BY <1>1, <3>1, <3>3 DEF Saw, Matches
  <2>2. CASE Top.kind # "patterns"
    <3>1. last' = last /\ \A k \in DOMAIN stack : stack[k].kind # "patterns"
      BY <1>1, <1>4, <1>5, <1>7, <2>2
    <3>2. Saw(i, last.view)
      BY <1>7, <3>1 DEF LatchKnown
    <3> QED
      BY <3>1, <3>2 DEF Saw, Matches
  <2> QED
    BY <2>1, <2>2
<1>8. ASSUME NEW k \in DOMAIN stack'
      PROVE  /\ stack'[k].kind = "patterns" => stack'[k].at <= Len(patterns') + 1
             /\ Undisturbed(k)' =>
                  /\ \A j \in DOMAIN stack' : k < j => stack'[j].kind # "patterns"
                  /\ \A i \in DOMAIN patterns' : i < stack'[k].at => Saw(i, stack[k].view)'
  <2>1. k \in DOMAIN stack /\ stack'[k] = stack[k]
    BY <1>1
  <2>2. \A i : Saw(i, stack[k].view) => Saw(i, stack[k].view)'
    BY <2>1 DEF Saw, Matches
  <2>3. Undisturbed(k)' <=> Undisturbed(k)
    BY <2>1 DEF Undisturbed
  <2> QED
    BY <1>1, <2>1, <2>2, <2>3 DEF LatchKnown
<1> QED
  BY <1>6, <1>7, <1>8 DEF LatchKnown

(* The steps of a relation check, and of a handler.                        *)
LEMMA EdgesLatch ==
  ASSUME IInv, LatchKnown, EdgeStep \/ RelationDone \/ HandlerReturns \/ HandlerRaises
  PROVE  LatchKnown'
<1>1. CASE EdgeStep
  <2>1. /\ stack # << >> /\ Top.kind = "relations" /\ UNCHANGED <<patterns, last>>
    BY <1>1 DEF EdgeStep, Walking, Idle
  <2>2. PICK e \in Unseen, fires \in BOOLEAN :
          SetTop([Top EXCEPT !.seen = @ \cup {e}, !.handling = fires, !.edge = e])
    BY <1>1 DEF EdgeStep, MatchesEdge, Has
  <2>3. Top \in Checks /\ e \in Edges
    BY <2>1, TopIsCheck DEF Unseen, Checks, Views
  <2> DEFINE c == [Top EXCEPT !.seen = @ \cup {e}, !.handling = fires, !.edge = e]
  <2>4. c \in Checks /\ c.kind = Top.kind /\ c.view = Top.view /\ c.nested = Top.nested
    BY <2>2, <2>3 DEF Checks
  <2> HIDE DEF c
  <2>5. PICK d \in Checks : d = c
    BY <2>4
  <2>6. SetTop(d)
    BY <2>2, <2>5 DEF c
  <2> QED
    BY <2>1, <2>4, <2>5, <2>6, LatchOnTop
<1>2. CASE RelationDone
  <2>1. /\ stack # << >> /\ Top.kind = "relations" /\ UNCHANGED <<patterns, last>>
        /\ SetTop([Top EXCEPT !.at = @ + 1, !.seen = {}])
    BY <1>2 DEF RelationDone, Walking, Idle
  <2>2. Top \in Checks
    BY <2>1, TopIsCheck
  <2> DEFINE c == [Top EXCEPT !.at = @ + 1, !.seen = {}]
  <2>3. c \in Checks /\ c.kind = Top.kind /\ c.view = Top.view /\ c.nested = Top.nested
    <3>1. Top.at + 1 \in Nat \ {0}
      BY <2>2 DEF Checks
    <3> QED
      BY <2>2, <3>1 DEF Checks
  <2> HIDE DEF c
  <2>4. PICK d \in Checks : d = c
    BY <2>3
  <2>5. SetTop(d)
    BY <2>1, <2>4 DEF c
  <2> QED
    BY <2>1, <2>3, <2>4, <2>5, LatchOnTop
<1>3. CASE HandlerReturns \/ HandlerRaises
  <2>1. /\ stack # << >> /\ UNCHANGED <<patterns, last>>
        /\ SetTop([Top EXCEPT !.handling = FALSE])
    BY <1>3 DEF HandlerReturns, HandlerRaises, Handling, Idle
  <2>2. Top \in Checks
    BY <2>1, TopIsCheck
  <2> DEFINE c == [Top EXCEPT !.handling = FALSE]
  <2>3. /\ c \in Checks /\ c.kind = Top.kind /\ c.view = Top.view /\ c.nested = Top.nested
        /\ c.at = Top.at
    BY <2>2 DEF Checks
  <2> HIDE DEF c
  <2>4. PICK d \in Checks : d = c
    BY <2>3
  <2>5. SetTop(d)
    BY <2>1, <2>4 DEF c
  <2> QED
    BY <2>1, <2>3, <2>4, <2>5, LatchOnTop
<1> QED
  BY <1>1, <1>2, <1>3

LEMMA LatchStep ==
  ASSUME IInv, LatchKnown, [Next]_vars
  PROVE  LatchKnown'
<1>1. CASE Register
  BY <1>1, RegisterLatch
<1>2. CASE Publish \/ Change \/ Sweep \/ UNCHANGED vars
  <2>1. UNCHANGED <<patterns, last, stack>>
    BY <1>2 DEF Publish, Change, Sweep, vars
  <2> QED
    BY <2>1, LatchStays
<1>3. CASE CheckBegins
  BY <1>3, CheckBeginsLatch
<1>4. CASE PatternStep
  BY <1>4, PatternStepLatch
<1>5. CASE EdgeStep \/ RelationDone \/ HandlerReturns \/ HandlerRaises
  BY <1>5, EdgesLatch
<1>6. CASE SpanEndRaises
  <2>1. /\ stack # << >> /\ Top.handling /\ UNCHANGED patterns /\ Leaves(Top.at - 1)
    BY <1>6 DEF SpanEndRaises, Handling, Idle
  <2>2. Top \in Checks /\ (Top.kind = "patterns" => Top.at - 1 \in DOMAIN patterns)
    BY <2>1, TopIsCheck
  <2>3. patterns \in Seq(PatternTriggers)
    BY DEF IInv, Records
  <2>4. Len(patterns) \in Nat /\ DOMAIN patterns = 1 .. Len(patterns)
    BY <2>3, LenProperties
  <2>5. Top.at \in Nat \ {0}
    BY <2>2 DEF Checks
  <2>6. /\ Top.at - 1 \in Nat /\ Top.at - 1 < Top.at
        /\ Top.kind = "patterns" => Top.at - 1 <= Len(patterns)
    BY <2>2, <2>4, <2>5
  <2> DEFINE w == Top.at - 1
  <2>7. PICK x \in Nat : x = w
    BY <2>6
  <2> HIDE DEF w
  <2>8. Leaves(x) /\ (Top.kind = "patterns" => x < Top.at /\ x <= Len(patterns))
    BY <2>1, <2>6, <2>7 DEF w
  <2> QED
    BY <2>1, <2>7, <2>8, LeavesLatch
<1>7. CASE CheckEnds
  <2>1. /\ stack # << >> /\ UNCHANGED patterns /\ Leaves(Len(patterns))
        /\ Top.kind = "patterns" => Top.at > Len(patterns)
    BY <1>7 DEF CheckEnds, Walking, Idle
  <2>2. Top \in Checks /\ patterns \in Seq(PatternTriggers)
    BY <2>1, TopIsCheck DEF IInv, Records
  <2>3. Len(patterns) \in Nat /\ Top.at \in Nat
    BY <2>2, LenProperties DEF Checks
  <2> DEFINE w == Len(patterns)
  <2>4. PICK x \in Nat : x = w
    BY <2>3
  <2>5. Leaves(x) /\ (Top.kind = "patterns" => x < Top.at /\ x <= Len(patterns))
    BY <2>1, <2>3, <2>4
  <2> QED
    BY <2>1, <2>4, <2>5, LeavesLatch
<1> QED
  BY <1>1, <1>2, <1>3, <1>4, <1>5, <1>6, <1>7 DEF Next

-----------------------------------------------------------------------------
(* The theorems.                                                           *)

(* Every state is well formed: a latched pattern has fired, and checks     *)
(* never nest deeper than they may.                                        *)
THEOREM TriggersTypeCorrect == Spec => []TypeOK
<1>1. IInv => TypeOK
  BY DEF IInv
<1> QED
  BY <1>1, AlwaysIInv, PTL

LEMMA OnceMeansOneProposal ==
  ASSUME IInv
  PROVE  OneProposalPerEdge
<1>1. ASSUME Walking("relations"), Top.at > Len(relations), NEW i \in Top.due,
             NEW e \in Top.view.edges, MatchesEdge(relations[i].relation, Top.view, e)
      PROVE  e \in relations[i].fired
  <2>1. stack # << >> /\ Top.kind = "relations"
    BY <1>1 DEF Walking, Idle
  <2>2. Top \in Checks /\ Paid(Top) /\ relations \in Seq(RelationTriggers)
    BY <2>1, TopIsCheck DEF IInv, Records
  <2>3. i \in DOMAIN relations /\ \A x \in Edges : Owes(Top, i, x) => x \in relations[i].fired
    BY <1>1, <2>1, <2>2 DEF Paid
  <2>4. i < Top.at
    <3>1. Top.at \in Nat /\ Len(relations) \in Nat /\ i \in 1 .. Len(relations)
      BY <2>2, <2>3, LenProperties DEF Checks
    <3> QED
      BY <1>1, <3>1
  <2>5. e \in Edges
    BY <2>2 DEF Checks, Views
  <2> QED
    BY <1>1, <2>3, <2>4, <2>5 DEF Owes
<1>2. ASSUME NEW i \in DOMAIN relations, NEW e \in Edges
      PROVE  LET about == {n \in DOMAIN patches : patches[n].by = <<"relation", i>> /\ patches[n].about = e}
                 running == \E c \in Range(stack) :
                              c.kind = "relations" /\ c.handling /\ c.at = i /\ c.edge = e
                 settled == IF e \in relations[i].fired /\ ~running
                               /\ <<<<"relation", i>>, e>> \notin raisedFor
                            THEN 1 ELSE 0
             IN  Cardinality(about) = settled
  <2> DEFINE about == {n \in DOMAIN patches : patches[n].by = <<"relation", i>> /\ patches[n].about = e}
             running == \E c \in Range(stack) :
                          c.kind = "relations" /\ c.handling /\ c.at = i /\ c.edge = e
  <2>1. about = Told(i, e)
    BY DEF Told, Tells
  <2>2. running <=> Running(i, e) # {}
    BY DEF Running, Runs, Range
  <2>3. Once(i, e) /\ (e \in relations[i].fired <=> Fired(i, e))
    BY DEF IInv, EachOnce, Fired
  <2>4. CASE e \in relations[i].fired /\ ~running /\ ~RaisedFor(i, e)
    <3>1. Told(i, e) # {} /\ \A m, n \in Told(i, e) : m = n
      BY <2>2, <2>3, <2>4 DEF Once
    <3>2. PICK n : Told(i, e) = {n}
      BY <3>1
    <3>3. Cardinality(about) = 1
      BY <2>1, <3>2, FS_Singleton
    <3> QED
      BY <2>4, <3>3 DEF RaisedFor
  <2>5. CASE ~(e \in relations[i].fired /\ ~running /\ ~RaisedFor(i, e))
    <3>1. about = {}
      BY <2>1, <2>2, <2>3, <2>5 DEF Once
    <3>2. Cardinality(about) = 0
      BY <3>1, FS_EmptySet
    <3> QED
      BY <2>5, <3>2 DEF RaisedFor
  <2> QED
    BY <2>4, <2>5
<1> QED
  BY <1>1, <1>2 DEF OneProposalPerEdge

(* However checks nest, handlers raise and edges come and go: a check      *)
(* fires every edge it owed a trigger, and an edge that fired one has one  *)
(* patch of it, or its handler is still running or raised.                 *)
THEOREM OneProposalAlways == Spec => []OneProposalPerEdge
<1>1. IInv => OneProposalPerEdge
  BY OnceMeansOneProposal
<1> QED
  BY <1>1, AlwaysIInv, PTL
(* The latch of a pattern is what the last pattern check saw of it, unless *)
(* another pattern check ran inside that one: an unchanged graph checked   *)
(* again fires nothing.                                                    *)
THEOREM LatchAlwaysTellsView == Spec => []LatchTellsView
<1>1. Init => LatchKnown
  BY InitLatch
<1>2. IInv /\ LatchKnown /\ [Next]_vars => LatchKnown'
  BY LatchStep
<1>3. IInv /\ LatchKnown => LatchTellsView
  <2>1. SUFFICES ASSUME IInv, LatchKnown, \A c \in Range(stack) : c.kind # "patterns",
                        ~last.nested, NEW i \in 1 .. last.walked
                 PROVE  patterns[i].matched = Matches(patterns[i].pattern, last.view)
    BY DEF LatchTellsView
  <2>2. \A k \in DOMAIN stack : stack[k].kind # "patterns"
    BY <2>1 DEF Range
  <2>3. patterns \in Seq(PatternTriggers) /\ last.walked \in Nat /\ last.walked <= Len(patterns)
    BY <2>1 DEF IInv, Records, LatchKnown
  <2>4. i \in DOMAIN patterns /\ i <= last.walked
    <3>1. DOMAIN patterns = 1 .. Len(patterns) /\ Len(patterns) \in Nat
      BY <2>3, LenProperties
    <3> QED
      BY <2>3, <3>1
  <2>5. Saw(i, last.view)
    BY <2>1, <2>2, <2>4 DEF LatchKnown
  <2> QED
    BY <2>5 DEF Saw
<1> QED
  BY <1>1, <1>2, <1>3, AlwaysIInv, PTL DEF Spec

-----------------------------------------------------------------------------
(* Evolution: arithmetic.                                                  *)

(* A power is a positive integer: the recursion is the function that       *)
(* starts at one and multiplies.                                           *)
PowerTable(b, k, p) == p = [n \in 0 .. k |-> IF n = 0 THEN 1 ELSE b * p[n - 1]]

LEMMA PowerTables ==
  ASSUME NEW b \in Nat \ {0}, NEW k \in Nat
  PROVE  \E p \in [0 .. k -> Nat \ {0}] : PowerTable(b, k, p)
<1> DEFINE Bad == {n \in Nat : \A p \in [0 .. n -> Nat \ {0}] : ~PowerTable(b, n, p)}
<1> SUFFICES Bad = {}
  OBVIOUS
<1> SUFFICES ASSUME Bad # {} PROVE FALSE
  OBVIOUS
<1>1. Bad \in SUBSET Nat
  OBVIOUS
<1>2. PICK n \in Bad : \A m \in Bad : n <= m
  BY <1>1, SmallestNumber
<1>3. n \in Nat /\ \A p \in [0 .. n -> Nat \ {0}] : ~PowerTable(b, n, p)
  OBVIOUS
<1>4. CASE n = 0
  <2> DEFINE p == [i \in 0 .. 0 |-> 1]
  <2>1. p \in [0 .. n -> Nat \ {0}]
    BY <1>4
  <2>2. PowerTable(b, n, p)
    BY <1>4 DEF PowerTable
  <2> QED
    BY <1>3, <2>1, <2>2
<1>5. CASE n # 0
  <2>1. n - 1 \in Nat /\ n - 1 \notin Bad
    <3> HIDE DEF Bad
    <3> QED
      BY <1>2, <1>3, <1>5
  <2>2. PICK q \in [0 .. n - 1 -> Nat \ {0}] : PowerTable(b, n - 1, q)
    BY <2>1
  <2> DEFINE p == [i \in 0 .. n |-> IF i = n THEN b * q[n - 1] ELSE q[i]]
  <2>3. n - 1 \in 0 .. n - 1 /\ q[n - 1] \in Nat \ {0}
    BY <2>1, <2>2
  <2>7. b * q[n - 1] \in Nat \ {0}
    BY <2>3
  <2>4. p \in [0 .. n -> Nat \ {0}]
    BY <1>3, <2>1, <2>7
  <2>5. ASSUME NEW i \in 0 .. n PROVE p[i] = IF i = 0 THEN 1 ELSE b * p[i - 1]
    <3>1. CASE i = n
      BY <1>3, <1>5, <2>3, <3>1
    <3>2. CASE i # n
      <4>1. i \in 0 .. n - 1 /\ p[i] = q[i]
        BY <1>3, <3>2
      <4>2. q[i] = IF i = 0 THEN 1 ELSE b * q[i - 1]
        BY <2>2, <4>1 DEF PowerTable
      <4>3. i # 0 => p[i - 1] = q[i - 1]
        BY <1>3, <4>1
      <4> QED
        BY <4>1, <4>2, <4>3
    <3> QED
      BY <3>1, <3>2
  <2>6. PowerTable(b, n, p)
    BY <2>5 DEF PowerTable
  <2> HIDE DEF p
  <2> QED
    BY <1>3, <2>4, <2>6
<1> QED
  BY <1>4, <1>5

LEMMA PowerPositive ==
  ASSUME NEW b \in Nat \ {0}, NEW k \in Nat
  PROVE  Power(b, k) \in Nat \ {0}
<1> DEFINE p == CHOOSE p : PowerTable(b, k, p)
<1>1. PowerTable(b, k, p)
  BY PowerTables
<1>2. Power(b, k) = p[k]
  BY DEF Power, PowerTable
<1>3. p = [n \in 0 .. k |-> IF n = 0 THEN 1 ELSE b * p[n - 1]]
  BY <1>1 DEF PowerTable
<1> HIDE DEF p
<1> DEFINE Bad == {n \in 0 .. k : p[n] \notin Nat \ {0}}
<1>4. ASSUME Bad # {} PROVE FALSE
  <2>0. Bad \in SUBSET Nat
    OBVIOUS
  <2>1. PICK n \in Bad : \A m \in Bad : n <= m
    <3> HIDE DEF Bad
    <3> QED
      BY <1>4, <2>0, SmallestNumber
  <2>2. n \in 0 .. k /\ p[n] \notin Nat \ {0}
    OBVIOUS
  <2>3. p[n] = IF n = 0 THEN 1 ELSE b * p[n - 1]
    BY <1>3, <2>2
  <2>4. CASE n = 0
    BY <2>2, <2>3, <2>4
  <2>5. CASE n # 0
    <3>1. n - 1 \in 0 .. k /\ n - 1 \notin Bad
      BY <2>1, <2>2, <2>5
    <3>2. p[n - 1] \in Nat \ {0}
      BY <3>1
    <3> QED
      BY <2>2, <2>3, <2>5, <3>2
  <2> QED
    BY <2>4, <2>5
<1> QED
  BY <1>2, <1>4

(* Fractions.                                                              *)
Fractions == Int \X (Nat \ {0})

LEMMA ProductOrder ==
  ASSUME NEW x \in Int, NEW y \in Int, NEW k \in Nat \ {0}
  PROVE  x <= y <=> x * k <= y * k
<1>1. ASSUME NEW z \in Int PROVE 0 <= z <=> 0 <= z * k
  BY Z3
<1>2. y - x \in Int /\ (y - x) * k = y * k - x * k /\ x * k \in Int /\ y * k \in Int
  BY Z3
<1>3. 0 <= y - x <=> 0 <= y * k - x * k
  BY <1>1, <1>2
<1> QED
  BY <1>2, <1>3

LEMMA LessTransitive ==
  ASSUME NEW p \in Fractions, NEW q \in Fractions, NEW r \in Fractions,
         ~Less(p, q), ~Less(q, r)
  PROVE  ~Less(p, r)
<1>1. PICK a \in Int, b \in Nat \ {0} : p = <<a, b>>
  BY DEF Fractions
<1>2. PICK c \in Int, d \in Nat \ {0} : q = <<c, d>>
  BY DEF Fractions
<1>3. PICK e \in Int, f \in Nat \ {0} : r = <<e, f>>
  BY DEF Fractions
<1>4. c * b <= a * d /\ e * d <= c * f
  BY <1>1, <1>2, <1>3 DEF Less
<1>5. c * b \in Int /\ a * d \in Int /\ e * d \in Int /\ c * f \in Int /\ e * b \in Int /\ a * f \in Int
  OBVIOUS
<1>6. (c * b) * f <= (a * d) * f /\ (e * d) * b <= (c * f) * b
  BY <1>4, <1>5, ProductOrder
<1>7. (e * d) * b = (e * b) * d /\ (c * f) * b = (c * b) * f /\ (a * d) * f = (a * f) * d
  BY Z3
<1>8. /\ (e * b) * d \in Int /\ (a * f) * d \in Int /\ (c * b) * f \in Int
      /\ (e * d) * b \in Int /\ (c * f) * b \in Int /\ (a * d) * f \in Int
  BY <1>5
<1>9. (e * b) * d <= (a * f) * d
  BY <1>6, <1>7, <1>8
<1>10. e * b <= a * f
  BY <1>5, <1>9, ProductOrder
<1> QED
  BY <1>1, <1>3, <1>5, <1>10 DEF Less

LEMMA LessOrder ==
  ASSUME NEW p \in Fractions, NEW q \in Fractions
  PROVE  /\ ~Less(p, p)
         /\ Less(p, q) => ~Less(q, p)
<1>1. PICK a \in Int, b \in Nat \ {0} : p = <<a, b>>
  BY DEF Fractions
<1>2. PICK c \in Int, d \in Nat \ {0} : q = <<c, d>>
  BY DEF Fractions
<1>3. a * b \in Int /\ a * d \in Int /\ c * b \in Int
  OBVIOUS
<1> QED
  BY <1>1, <1>2, <1>3 DEF Less

LEMMA ZeroFraction ==
  Zero \in Fractions
BY DEF Zero, Fractions

(* A finite set of fractions has a greatest one: one that the fewest are   *)
(* above.                                                                  *)
LEMMA GreatestFraction ==
  ASSUME NEW R \in SUBSET Fractions, IsFiniteSet(R), R # {}
  PROVE  \E q \in R : \A r \in R : ~Less(q, r)
<1> DEFINE Over(q) == {r \in R : Less(q, r)}
           Counts == {Cardinality(Over(q)) : q \in R}
<1>1. ASSUME NEW q \in R PROVE IsFiniteSet(Over(q)) /\ Cardinality(Over(q)) \in Nat
  <2>1. Over(q) \subseteq R
    OBVIOUS
  <2> HIDE DEF Over
  <2> QED
    BY <2>1, FS_Subset, FS_CardinalityType
<1>2. Counts \in SUBSET Nat /\ Counts # {}
  BY <1>1
<1>3. PICK n \in Counts : \A m \in Counts : n <= m
  <2> HIDE DEF Counts
  <2> QED
    BY <1>2, SmallestNumber
<1>4. PICK q \in R : n = Cardinality(Over(q))
  OBVIOUS
<1>5. ASSUME NEW r \in R, Less(q, r) PROVE FALSE
  <2>1. \A s \in Over(r) : s \in Over(q)
    <3> TAKE s \in Over(r)
    <3>1. s \in R /\ Less(r, s)
      OBVIOUS
    <3>2. q \in Fractions /\ r \in Fractions /\ s \in Fractions
      BY <3>1
    <3>3. ~Less(r, q)
      BY <1>5, <3>2, LessOrder
    <3>4. ASSUME ~Less(q, s) PROVE FALSE
      <4>1. ~Less(s, r)
        BY <3>1, <3>2, LessOrder
      <4>2. ~Less(q, r)
        BY <3>2, <3>4, <4>1, LessTransitive
      <4> QED
        BY <1>5, <4>2
    <3> QED
      BY <3>1, <3>4
  <2>2. r \in Over(q) /\ r \notin Over(r)
    BY <1>5, LessOrder
  <2>3. Cardinality(Over(r)) \in Counts
    OBVIOUS
  <2> DEFINE O == Over(q)
             P == Over(r)
  <2>4. IsFiniteSet(O) /\ P \subseteq O /\ P # O /\ Cardinality(O) \in Nat /\ Cardinality(P) \in Nat
    BY <1>1, <2>1, <2>2
  <2>5. n = Cardinality(O) /\ n <= Cardinality(P)
    BY <1>3, <1>4, <2>3
  <2> HIDE DEF O, P, Over, Counts
  <2>6. Cardinality(P) < Cardinality(O)
    BY <2>4, FS_Subset
  <2> QED
    BY <2>4, <2>5, <2>6
<1> QED
  BY <1>5

(* What a genome's fitness is of its reductions.                           *)
LEMMA FitnessIs ==
  ASSUME NEW g, NEW R \in SUBSET Fractions, IsFiniteSet(R)
  PROVE  LET f == Fitness(g, R)
         IN /\ f.cost = Len(g)
            /\ f.regression = (R = {})
            /\ f.quality \in R \cup {Zero}
            /\ \A r \in R \cup {Zero} : ~Less(f.quality, r)
<1> DEFINE Z == R \cup {Zero}
<1>1. Z \in SUBSET Fractions /\ Z # {}
  BY ZeroFraction
<1>2. IsFiniteSet(Z)
  BY FS_AddElement
<1>3. \E q \in Z : \A r \in Z : ~Less(q, r)
  <2> HIDE DEF Z
  <2> QED
    BY <1>1, <1>2, GreatestFraction
<1> DEFINE top == CHOOSE q \in Z : \A r \in Z : ~Less(q, r)
<1>4. top \in Z /\ \A r \in Z : ~Less(top, r)
  BY <1>3
<1>5. Fitness(g, R) = [quality |-> top, cost |-> Len(g), regression |-> R = {}]
  BY DEF Fitness
<1> HIDE DEF top
<1> QED
  BY <1>4, <1>5

-----------------------------------------------------------------------------
(* The tools.  A candidate that is applied yields metrics, or the tool     *)
(* fails and yields none.                                                  *)

AtMostOne(S) == \A x, y \in S : x = y

LEMMA AtMostOneFinite ==
  ASSUME NEW S, AtMostOne(S)
  PROVE  IsFiniteSet(S)
<1>1. CASE S = {}
  BY <1>1, FS_EmptySet
<1>2. CASE S # {}
  <2>1. PICK x \in S : TRUE
    BY <1>2
  <2>2. S = {x}
    BY <2>1 DEF AtMostOne
  <2> QED
    BY <2>2, FS_Singleton
<1> QED
  BY <1>1, <1>2

(* What a candidate and a baseline of a domain are.                        *)
CandidatesOf(d) == [kind : KindsOf(d), knob : Int, legal : BOOLEAN]
BasesOf(d) == [metrics : MetricsOf(d), valid : BOOLEAN]

LEMMA KindsAre ==
  /\ KindsOf("compiler") = CompilerKinds
  /\ KindsOf("sql") = SQLKinds
  /\ KindsOf("iac") = IaCKinds
  /\ KindsOf("security") = SecurityKinds
  /\ KindsOf("ml") = MLKinds
  /\ KindsOf("network") = NetworkKinds
  /\ KindsOf("storage") = StorageKinds
  /\ KindsOf("log") = LogKinds
BY DEF KindsOf

LEMMA MetricsAre ==
  /\ MetricsOf("compiler") = CompilerMetrics
  /\ MetricsOf("sql") = SQLMetrics
  /\ MetricsOf("iac") = IaCMetrics
  /\ MetricsOf("security") = SecurityMetrics
  /\ MetricsOf("ml") = MLMetrics
  /\ MetricsOf("network") = NetworkMetrics
  /\ MetricsOf("storage") = StorageMetrics
  /\ MetricsOf("log") = LogMetrics
BY DEF MetricsOf

LEMMA DivisionWhole ==
  ASSUME NEW x \in Nat, NEW k \in Nat \ {0}
  PROVE  x \div k \in Nat
OBVIOUS

LEMMA CompilerYields ==
  ASSUME NEW c \in CandidatesOf("compiler"), NEW m \in CompilerMetrics
  PROVE  CompilerApply(c, m) \subseteq CompilerMetrics /\ AtMostOne(CompilerApply(c, m))
<1>1. c.knob \in Int /\ m.cycles \in Nat /\ m.spills \in Nat
  BY DEF CandidatesOf, CompilerMetrics
<1>2. [m EXCEPT !.misses = 0] \in CompilerMetrics
  BY DEF CompilerMetrics
<1>3. c.knob > 0 => m.cycles \div c.knob \in Nat /\ m.spills + (c.knob + 15) \div 16 \in Nat
  BY <1>1
<1>4. ASSUME c.knob > 0
      PROVE  (2 * m.cycles * Power(7, c.knob) + Power(10, c.knob)) \div (2 * Power(10, c.knob)) \in Nat
  <2>0. c.knob \in Nat /\ 7 \in Nat \ {0} /\ 10 \in Nat \ {0}
    BY <1>1, <1>4
  <2>1. PICK a \in Nat \ {0}, b \in Nat \ {0} : a = Power(7, c.knob) /\ b = Power(10, c.knob)
    BY <2>0, PowerPositive
  <2>2. 2 * m.cycles * a + b \in Nat /\ 2 * b \in Nat \ {0}
    BY <1>1, <2>1
  <2> QED
    BY <2>1, <2>2, DivisionWhole
<1>5. Minus(m.spills, 1) \in Nat
  BY <1>1 DEF Minus, Greatest
<1>6. \A x \in Nat : Greatest(1, x) \in Nat
  BY DEF Greatest
<1>7. CASE ~c.legal \/ c.kind = "interchange"
  BY <1>2, <1>7 DEF CompilerApply, AtMostOne
<1>8. CASE c.legal /\ c.kind = "tile"
  BY <1>3, <1>6, <1>8 DEF CompilerApply, CompilerMetrics, AtMostOne
<1>9. CASE c.legal /\ c.kind = "fusion"
  BY <1>4, <1>5, <1>6, <1>9 DEF CompilerApply, CompilerMetrics, AtMostOne
<1>10. CASE c.legal /\ c.kind = "unroll"
  BY <1>1, <1>3, <1>5, <1>6, <1>10 DEF CompilerApply, CompilerMetrics, AtMostOne
<1>11. c.legal \in BOOLEAN /\ c.kind \in {"tile", "interchange", "fusion", "unroll"}
  BY KindsAre DEF CandidatesOf, CompilerKinds
<1> QED
  BY <1>7, <1>8, <1>9, <1>10, <1>11

LEMMA SQLYields ==
  ASSUME NEW c \in CandidatesOf("sql"), NEW m \in SQLMetrics
  PROVE  SQLApply(c, m) \subseteq SQLMetrics /\ AtMostOne(SQLApply(c, m))
<1>1. c.knob \in Int /\ m.examined \in Nat /\ m.time \in Nat /\ c.legal \in BOOLEAN
  BY DEF CandidatesOf, SQLMetrics
<1>2. c.knob >= 1 => Greatest(1, m.examined \div c.knob) \in Nat
  BY <1>1 DEF Greatest
<1>3. (m.time * 85) \div 100 \in Nat /\ Minus(m.time, 5) \in Nat /\ Minus(m.time, 10) \in Nat
  BY <1>1 DEF Minus, Greatest
<1> DEFINE x == Greatest(1, m.examined \div c.knob)
           index == c.kind = "add_index" /\ c.knob >= 1
           joins == c.kind = "reorder_joins" /\ c.knob >= 1
           rewrite == c.kind = "rewrite_as_join" /\ c.knob >= 1
<1>4. CASE c.legal /\ index
  <2>1. SQLApply(c, m) = {[m EXCEPT !.examined = x]}
    BY <1>4 DEF SQLApply
  <2> HIDE DEF x
  <2> QED
    BY <1>2, <1>4, <2>1 DEF SQLMetrics, AtMostOne, x
<1>5. CASE c.legal /\ joins
  <2>1. PICK y \in Nat, z \in Nat : y = (m.time * 85) \div 100 /\ z = x
    BY <1>2, <1>3, <1>5
  <2>2. SQLApply(c, m) = {[m EXCEPT !.examined = z, !.time = y]}
    BY <1>1, <1>5, <2>1 DEF SQLApply, SQLMetrics
  <2> QED
    BY <2>1, <2>2 DEF SQLMetrics, AtMostOne
<1>6. CASE c.legal /\ rewrite
  <2>1. PICK y \in Nat, z \in Nat : y = Minus(m.time, 5) /\ z = x
    BY <1>2, <1>3, <1>6
  <2>2. SQLApply(c, m) = {[m EXCEPT !.examined = z, !.time = y]}
    BY <1>1, <1>6, <2>1 DEF SQLApply, SQLMetrics
  <2> QED
    BY <2>1, <2>2 DEF SQLMetrics, AtMostOne
<1>7. CASE c.legal /\ c.kind = "replan_query"
  <2>1. PICK y \in Nat : y = Minus(m.time, 10)
    BY <1>3
  <2>2. SQLApply(c, m) = {[m EXCEPT !.time = y]}
    BY <1>7, <2>1 DEF SQLApply
  <2> QED
    BY <2>2 DEF SQLMetrics, AtMostOne
<1>8. CASE ~c.legal \/ (~index /\ ~joins /\ ~rewrite /\ c.kind # "replan_query")
  <2>1. SQLApply(c, m) = {}
    BY <1>8 DEF SQLApply
  <2> QED
    BY <2>1 DEF AtMostOne
<1> HIDE DEF index, joins, rewrite
<1> QED
  BY <1>1, <1>4, <1>5, <1>6, <1>7, <1>8

LEMMA IaCYields ==
  ASSUME NEW c \in CandidatesOf("iac"), NEW m \in IaCMetrics
  PROVE  IaCApply(c, m) \subseteq IaCMetrics /\ AtMostOne(IaCApply(c, m))
<1>1. c.kind \in IaCKinds /\ m.variables \in Nat /\ m.resources \in Nat /\ m.drift \in Nat
  BY KindsAre DEF CandidatesOf, IaCMetrics
<1>2. Minus(m.variables, 1) \in Nat /\ m.resources \div 2 \in Nat /\ m.drift \div 2 \in Nat
  BY <1>1 DEF Minus, Greatest
<1>3. CASE ~c.legal
  BY <1>3 DEF IaCApply, AtMostOne
<1>4. CASE c.legal /\ c.kind = "remove_unused"
  BY <1>2, <1>4 DEF IaCApply, IaCMetrics, AtMostOne
<1>5. CASE c.legal /\ c.kind = "add_output"
  BY <1>1, <1>5 DEF IaCApply, IaCMetrics, AtMostOne
<1>6. CASE c.legal /\ c.kind = "restructure_dep"
  BY <1>6 DEF IaCApply, AtMostOne
<1>7. CASE c.legal /\ c.kind = "replan_providers"
  BY <1>2, <1>7 DEF IaCApply, IaCMetrics, AtMostOne
<1> QED
  BY <1>1, <1>3, <1>4, <1>5, <1>6, <1>7 DEF CandidatesOf, IaCKinds

LEMMA SecurityYields ==
  ASSUME NEW c \in CandidatesOf("security"), NEW m \in SecurityMetrics
  PROVE  SecurityApply(c, m) \subseteq SecurityMetrics /\ AtMostOne(SecurityApply(c, m))
<1>1. c.knob \in Int /\ m.threats \in Nat /\ m.risk \in Nat /\ m.coverage \in Nat
  BY DEF CandidatesOf, SecurityMetrics
<1>2. /\ c.knob >= 1 => Minus(m.threats, c.knob) \in Nat /\ Least(100, m.coverage + 10 * c.knob) \in Nat
      /\ m.risk \div 2 \in Nat /\ (m.risk * 8) \div 10 \in Nat
      /\ m.threats \div 2 \in Nat /\ m.threats \div 4 \in Nat
  BY <1>1 DEF Minus, Greatest, Least
<1> QED
  BY <1>2 DEF SecurityApply, SecurityMetrics, AtMostOne

LEMMA MLYields ==
  ASSUME NEW c \in CandidatesOf("ml"), NEW m \in MLMetrics
  PROVE  MLApply(c, m) \subseteq MLMetrics /\ AtMostOne(MLApply(c, m))
<1>1. c.knob \in Int /\ m.loss \in Nat /\ m.accuracy \in Nat /\ m.epochs \in Nat
  BY DEF CandidatesOf, MLMetrics
<1>2. c.knob > 0 => (m.loss * c.knob) \div 6400 \in Nat /\ m.loss + 64 * c.knob \in Nat
  <2> SUFFICES ASSUME c.knob > 0
               PROVE  (m.loss * c.knob) \div 6400 \in Nat /\ m.loss + 64 * c.knob \in Nat
    OBVIOUS
  <2>1. m.loss * c.knob \in Nat
    BY <1>1
  <2> QED
    BY <1>1, <2>1, DivisionWhole
<1>3. /\ Minus(m.epochs, 5) \in Nat /\ Minus(m.epochs, 10) \in Nat /\ Minus(m.epochs, 20) \in Nat
      /\ (m.loss * 95) \div 100 \in Nat /\ (m.loss * 8) \div 10 \in Nat
      /\ Least(100, m.accuracy + 5) \in Nat
  BY <1>1 DEF Minus, Greatest, Least
<1>4. c.legal \in BOOLEAN /\ c.kind \in {"adjust_lr", "prune_layer", "add_regularization", "switch_optimizer"}
  BY KindsAre DEF CandidatesOf, MLKinds
<1>5. CASE c.legal /\ c.kind = "adjust_lr" /\ 0 < c.knob /\ c.knob <= 6400
  <2>1. PICK x \in Nat, y \in Nat : x = (m.loss * c.knob) \div 6400 /\ y = Minus(m.epochs, 5)
    BY <1>1, <1>2, <1>3, <1>5
  <2>2. MLApply(c, m) = {[m EXCEPT !.loss = x, !.epochs = y]}
    BY <1>1, <1>4, <1>5, <2>1 DEF MLApply
  <2> QED
    BY <2>2 DEF MLMetrics, AtMostOne
<1>6. CASE c.legal /\ c.kind = "prune_layer" /\ c.knob >= 1
  <2>1. PICK x \in Nat, y \in Nat : x = m.loss + 64 * c.knob /\ y = Minus(m.epochs, 10)
    BY <1>1, <1>2, <1>3, <1>6
  <2>2. MLApply(c, m) = {[m EXCEPT !.loss = x, !.epochs = y]}
    BY <1>1, <1>4, <1>6, <2>1 DEF MLApply
  <2> QED
    BY <2>2 DEF MLMetrics, AtMostOne
<1>7. CASE c.legal /\ c.kind = "add_regularization"
  <2>1. PICK x \in Nat, y \in Nat : x = (m.loss * 95) \div 100 /\ y = Least(100, m.accuracy + 5)
    BY <1>3
  <2>2. MLApply(c, m) = {[m EXCEPT !.loss = x, !.accuracy = y]}
    BY <1>4, <1>7, <2>1 DEF MLApply
  <2> QED
    BY <2>2 DEF MLMetrics, AtMostOne
<1>9. CASE c.legal /\ c.kind = "switch_optimizer"
  <2>1. PICK x \in Nat, y \in Nat : x = (m.loss * 8) \div 10 /\ y = Minus(m.epochs, 20)
    BY <1>3
  <2>2. MLApply(c, m) = {[m EXCEPT !.loss = x, !.epochs = y]}
    BY <1>4, <1>9, <2>1 DEF MLApply
  <2> QED
    BY <2>2 DEF MLMetrics, AtMostOne
<1>8. CASE \/ ~c.legal
           \/ c.kind = "adjust_lr" /\ ~(0 < c.knob /\ c.knob <= 6400)
           \/ c.kind = "prune_layer" /\ ~(c.knob >= 1)
  BY <1>1, <1>4, <1>8 DEF MLApply, AtMostOne
<1> QED
  BY <1>1, <1>4, <1>5, <1>6, <1>7, <1>8, <1>9

LEMMA NetworkYields ==
  ASSUME NEW c \in CandidatesOf("network"), NEW m \in NetworkMetrics
  PROVE  NetworkApply(c, m) \subseteq NetworkMetrics /\ AtMostOne(NetworkApply(c, m))
<1>1. c.knob \in Int /\ m.latency \in Nat /\ m.bandwidth \in Nat /\ m.loss \in Nat
  BY DEF CandidatesOf, NetworkMetrics
<1>2. /\ c.knob >= 1 => m.latency + 2 * c.knob \in Nat
      /\ (m.latency * 7) \div 10 \in Nat /\ m.latency \div 2 \in Nat /\ (m.latency * 8) \div 10 \in Nat
      /\ (m.bandwidth * 3) \div 2 \in Nat /\ m.bandwidth + 50 \in Nat /\ (m.loss * 3) \div 10 \in Nat
  BY <1>1
<1> QED
  BY <1>2 DEF NetworkApply, NetworkMetrics, AtMostOne

LEMMA StorageYields ==
  ASSUME NEW c \in CandidatesOf("storage"), NEW m \in StorageMetrics
  PROVE  StorageApply(c, m) \subseteq StorageMetrics /\ AtMostOne(StorageApply(c, m))
<1>1. c.knob \in Int /\ m.bytes \in Nat /\ m.latency \in Nat /\ c.legal \in BOOLEAN
  BY DEF CandidatesOf, StorageMetrics
<1>2. c.knob \in 1 .. 99 => (m.bytes * (100 - c.knob)) \div 100 \in Nat
  <2> SUFFICES ASSUME c.knob \in 1 .. 99
               PROVE  (m.bytes * (100 - c.knob)) \div 100 \in Nat
    OBVIOUS
  <2>1. PICK k \in Nat : k = 100 - c.knob
    BY <1>1
  <2>2. m.bytes * k \in Nat
    BY <1>1
  <2> QED
    BY <2>1, <2>2, DivisionWhole
<1>3. c.knob >= 2 => m.latency \div c.knob \in Nat
  BY <1>1
<1>4. m.latency + 1 \in Nat /\ m.latency \div 2 \in Nat
  BY <1>1
<1>5. CASE c.legal /\ c.kind = "compress" /\ c.knob \in 1 .. 99
  <2>1. PICK x \in Nat, y \in Nat : x = (m.bytes * (100 - c.knob)) \div 100 /\ y = m.latency + 1
    BY <1>2, <1>4, <1>5
  <2>2. StorageApply(c, m) = {[m EXCEPT !.bytes = x, !.latency = y]}
    BY <1>5, <2>1 DEF StorageApply
  <2> QED
    BY <2>2 DEF StorageMetrics, AtMostOne
<1>6. CASE c.legal /\ c.kind \in {"partition", "shard"} /\ c.knob >= 2
  <2>1. PICK y \in Nat : y = m.latency \div c.knob
    BY <1>3, <1>6
  <2>2. StorageApply(c, m) = {[m EXCEPT !.latency = y]}
    BY <1>6, <2>1 DEF StorageApply
  <2> QED
    BY <2>2 DEF StorageMetrics, AtMostOne
<1>7. CASE c.legal /\ c.kind = "reindex"
  <2>1. PICK y \in Nat : y = m.latency \div 2
    BY <1>4
  <2>2. StorageApply(c, m) = {[m EXCEPT !.latency = y]}
    BY <1>7, <2>1 DEF StorageApply
  <2> QED
    BY <2>2 DEF StorageMetrics, AtMostOne
<1>8. CASE \/ ~c.legal
           \/ /\ ~(c.kind = "compress" /\ c.knob \in 1 .. 99) /\ c.kind # "reindex"
              /\ ~(c.kind \in {"partition", "shard"} /\ c.knob >= 2)
  <2>1. StorageApply(c, m) = {}
    BY <1>8 DEF StorageApply
  <2> QED
    BY <2>1 DEF AtMostOne
<1> QED
  BY <1>1, <1>5, <1>6, <1>7, <1>8

LEMMA LogYields ==
  ASSUME NEW c \in CandidatesOf("log"), NEW m \in LogMetrics
  PROVE  LogApply(c, m) \subseteq LogMetrics /\ AtMostOne(LogApply(c, m))
<1>1. c.knob \in Int /\ m.errors \in Nat /\ m.volume \in Nat
  BY DEF CandidatesOf, LogMetrics
<1>2. c.knob \in 1 .. 99 => (m.volume * c.knob) \div 100 \in Nat
  <2> SUFFICES ASSUME c.knob \in 1 .. 99
               PROVE  (m.volume * c.knob) \div 100 \in Nat
    OBVIOUS
  <2>1. m.volume * c.knob \in Nat
    BY <1>1
  <2> QED
    BY <2>1, DivisionWhole
<1>3. m.errors \div 2 \in Nat /\ (m.volume * 7) \div 10 \in Nat /\ m.volume \div 2 \in Nat
  BY <1>1
<1> QED
  BY <1>2, <1>3 DEF LogApply, LogMetrics, AtMostOne

-----------------------------------------------------------------------------
(* Reductions.  What a genome improves is what its candidates improve one  *)
(* by one, and a candidate yields one reduction or none.                   *)

(* The baseline a tool is told: the compiler's says nothing of misses.     *)
ToldBase(e) == IF e.domain = "compiler" THEN [e.base EXCEPT !.metrics.misses = 0] ELSE e.base

Gains(e, c) ==
  CASE e.domain = "compiler" -> {CompilerReduction(e.base.metrics, m) : m \in CompilerImproving(<<c>>, ToldBase(e))}
    [] e.domain = "sql" -> {SQLReduction(e.base.metrics, m) : m \in SQLImproving(<<c>>, ToldBase(e))}
    [] e.domain = "iac" -> {IaCReduction(e.base.metrics, m) : m \in IaCImproving(<<c>>, ToldBase(e))}
    [] e.domain = "security" -> {SecurityReduction(e.base.metrics, m) : m \in SecurityImproving(<<c>>, ToldBase(e))}
    [] e.domain = "ml" -> {MLReduction(e.base.metrics, m) : m \in MLImproving(<<c>>, ToldBase(e))}
    [] e.domain = "network" -> {NetworkReduction(e.base.metrics, m) : m \in NetworkImproving(<<c>>, ToldBase(e))}
    [] e.domain = "storage" -> {StorageReduction(e.base.metrics, m) : m \in StorageImproving(<<c>>, ToldBase(e))}
    [] e.domain = "log" -> {LogReduction(e.base.metrics, m) : m \in LogImproving(<<c>>, ToldBase(e))}

EntriesOf(d) ==
  [domain : {d}, base : BasesOf(d), genome : Seq(CandidatesOf(d))]
AllEntries == UNION {EntriesOf(d) : d \in Domains}

LEMMA RatioFraction ==
  ASSUME NEW x \in Nat, NEW y \in Nat
  PROVE  Ratio(x, y) \in Fractions
BY DEF Ratio, Zero, Fractions

LEMMA CompilerOneByOne ==
  ASSUME NEW g, NEW base
  PROVE  CompilerImproving(g, base) = UNION {CompilerImproving(<<g[i]>>, base) : i \in DOMAIN g}
<1>1. ASSUME NEW c
      PROVE  CompilerImproving(<<c>>, base) =
               {m \in CompilerApply(c, base.metrics) :
                  Beats(CompilerRank(m), base, CompilerRank(base.metrics))}
  BY DEF CompilerImproving
<1>2. \A m : m \in CompilerImproving(g, base) <=>
             \E i \in DOMAIN g : /\ m \in CompilerApply(g[i], base.metrics)
                                 /\ Beats(CompilerRank(m), base, CompilerRank(base.metrics))
  BY DEF CompilerImproving
<1>3. \A m : m \in UNION {CompilerImproving(<<g[i]>>, base) : i \in DOMAIN g} <=>
             \E i \in DOMAIN g : m \in CompilerImproving(<<g[i]>>, base)
  OBVIOUS
<1>4. \A m : m \in CompilerImproving(g, base)
             <=> m \in UNION {CompilerImproving(<<g[i]>>, base) : i \in DOMAIN g}
  BY <1>1, <1>2, <1>3
<1> QED
  BY <1>4

LEMMA SQLOneByOne ==
  ASSUME NEW g, NEW base
  PROVE  SQLImproving(g, base) = UNION {SQLImproving(<<g[i]>>, base) : i \in DOMAIN g}
<1>1. ASSUME NEW c
      PROVE  SQLImproving(<<c>>, base) =
               {m \in SQLApply(c, base.metrics) :
                  Beats(SQLRank(m), base, SQLRank(base.metrics))}
  BY DEF SQLImproving
<1>2. \A m : m \in SQLImproving(g, base) <=>
             \E i \in DOMAIN g : /\ m \in SQLApply(g[i], base.metrics)
                                 /\ Beats(SQLRank(m), base, SQLRank(base.metrics))
  BY DEF SQLImproving
<1>3. \A m : m \in UNION {SQLImproving(<<g[i]>>, base) : i \in DOMAIN g} <=>
             \E i \in DOMAIN g : m \in SQLImproving(<<g[i]>>, base)
  OBVIOUS
<1>4. \A m : m \in SQLImproving(g, base)
             <=> m \in UNION {SQLImproving(<<g[i]>>, base) : i \in DOMAIN g}
  BY <1>1, <1>2, <1>3
<1> QED
  BY <1>4

LEMMA IaCOneByOne ==
  ASSUME NEW g, NEW base
  PROVE  IaCImproving(g, base) = UNION {IaCImproving(<<g[i]>>, base) : i \in DOMAIN g}
<1>1. ASSUME NEW c
      PROVE  IaCImproving(<<c>>, base) =
               {m \in IaCApply(c, base.metrics) :
                  Beats(IaCRank(m), base, IaCRank(base.metrics))}
  BY DEF IaCImproving
<1>2. \A m : m \in IaCImproving(g, base) <=>
             \E i \in DOMAIN g : /\ m \in IaCApply(g[i], base.metrics)
                                 /\ Beats(IaCRank(m), base, IaCRank(base.metrics))
  BY DEF IaCImproving
<1>3. \A m : m \in UNION {IaCImproving(<<g[i]>>, base) : i \in DOMAIN g} <=>
             \E i \in DOMAIN g : m \in IaCImproving(<<g[i]>>, base)
  OBVIOUS
<1>4. \A m : m \in IaCImproving(g, base)
             <=> m \in UNION {IaCImproving(<<g[i]>>, base) : i \in DOMAIN g}
  BY <1>1, <1>2, <1>3
<1> QED
  BY <1>4

LEMMA SecurityOneByOne ==
  ASSUME NEW g, NEW base
  PROVE  SecurityImproving(g, base) = UNION {SecurityImproving(<<g[i]>>, base) : i \in DOMAIN g}
<1>1. ASSUME NEW c
      PROVE  SecurityImproving(<<c>>, base) =
               {m \in SecurityApply(c, base.metrics) :
                  Beats(SecurityRank(m), base, SecurityRank(base.metrics))}
  BY DEF SecurityImproving
<1>2. \A m : m \in SecurityImproving(g, base) <=>
             \E i \in DOMAIN g : /\ m \in SecurityApply(g[i], base.metrics)
                                 /\ Beats(SecurityRank(m), base, SecurityRank(base.metrics))
  BY DEF SecurityImproving
<1>3. \A m : m \in UNION {SecurityImproving(<<g[i]>>, base) : i \in DOMAIN g} <=>
             \E i \in DOMAIN g : m \in SecurityImproving(<<g[i]>>, base)
  OBVIOUS
<1>4. \A m : m \in SecurityImproving(g, base)
             <=> m \in UNION {SecurityImproving(<<g[i]>>, base) : i \in DOMAIN g}
  BY <1>1, <1>2, <1>3
<1> QED
  BY <1>4

LEMMA MLOneByOne ==
  ASSUME NEW g, NEW base
  PROVE  MLImproving(g, base) = UNION {MLImproving(<<g[i]>>, base) : i \in DOMAIN g}
<1>1. ASSUME NEW c
      PROVE  MLImproving(<<c>>, base) =
               {m \in MLApply(c, base.metrics) :
                  Beats(MLRank(m), base, MLRank(base.metrics))}
  BY DEF MLImproving
<1>2. \A m : m \in MLImproving(g, base) <=>
             \E i \in DOMAIN g : /\ m \in MLApply(g[i], base.metrics)
                                 /\ Beats(MLRank(m), base, MLRank(base.metrics))
  BY DEF MLImproving
<1>3. \A m : m \in UNION {MLImproving(<<g[i]>>, base) : i \in DOMAIN g} <=>
             \E i \in DOMAIN g : m \in MLImproving(<<g[i]>>, base)
  OBVIOUS
<1>4. \A m : m \in MLImproving(g, base)
             <=> m \in UNION {MLImproving(<<g[i]>>, base) : i \in DOMAIN g}
  BY <1>1, <1>2, <1>3
<1> QED
  BY <1>4

LEMMA NetworkOneByOne ==
  ASSUME NEW g, NEW base
  PROVE  NetworkImproving(g, base) = UNION {NetworkImproving(<<g[i]>>, base) : i \in DOMAIN g}
<1>1. ASSUME NEW c
      PROVE  NetworkImproving(<<c>>, base) =
               {m \in NetworkApply(c, base.metrics) :
                  Beats(NetworkRank(m), base, NetworkRank(base.metrics))}
  BY DEF NetworkImproving
<1>2. \A m : m \in NetworkImproving(g, base) <=>
             \E i \in DOMAIN g : /\ m \in NetworkApply(g[i], base.metrics)
                                 /\ Beats(NetworkRank(m), base, NetworkRank(base.metrics))
  BY DEF NetworkImproving
<1>3. \A m : m \in UNION {NetworkImproving(<<g[i]>>, base) : i \in DOMAIN g} <=>
             \E i \in DOMAIN g : m \in NetworkImproving(<<g[i]>>, base)
  OBVIOUS
<1>4. \A m : m \in NetworkImproving(g, base)
             <=> m \in UNION {NetworkImproving(<<g[i]>>, base) : i \in DOMAIN g}
  BY <1>1, <1>2, <1>3
<1> QED
  BY <1>4

LEMMA StorageOneByOne ==
  ASSUME NEW g, NEW base
  PROVE  StorageImproving(g, base) = UNION {StorageImproving(<<g[i]>>, base) : i \in DOMAIN g}
<1>1. ASSUME NEW c
      PROVE  StorageImproving(<<c>>, base) =
               {m \in StorageApply(c, base.metrics) :
                  Beats(StorageRank(m), base, StorageRank(base.metrics))}
  BY DEF StorageImproving
<1>2. \A m : m \in StorageImproving(g, base) <=>
             \E i \in DOMAIN g : /\ m \in StorageApply(g[i], base.metrics)
                                 /\ Beats(StorageRank(m), base, StorageRank(base.metrics))
  BY DEF StorageImproving
<1>3. \A m : m \in UNION {StorageImproving(<<g[i]>>, base) : i \in DOMAIN g} <=>
             \E i \in DOMAIN g : m \in StorageImproving(<<g[i]>>, base)
  OBVIOUS
<1>4. \A m : m \in StorageImproving(g, base)
             <=> m \in UNION {StorageImproving(<<g[i]>>, base) : i \in DOMAIN g}
  BY <1>1, <1>2, <1>3
<1> QED
  BY <1>4

LEMMA LogOneByOne ==
  ASSUME NEW g, NEW base
  PROVE  LogImproving(g, base) = UNION {LogImproving(<<g[i]>>, base) : i \in DOMAIN g}
<1>1. ASSUME NEW c
      PROVE  LogImproving(<<c>>, base) =
               {m \in LogApply(c, base.metrics) :
                  Beats(LogRank(m), base, LogRank(base.metrics))}
  BY DEF LogImproving
<1>2. \A m : m \in LogImproving(g, base) <=>
             \E i \in DOMAIN g : /\ m \in LogApply(g[i], base.metrics)
                                 /\ Beats(LogRank(m), base, LogRank(base.metrics))
  BY DEF LogImproving
<1>3. \A m : m \in UNION {LogImproving(<<g[i]>>, base) : i \in DOMAIN g} <=>
             \E i \in DOMAIN g : m \in LogImproving(<<g[i]>>, base)
  OBVIOUS
<1>4. \A m : m \in LogImproving(g, base)
             <=> m \in UNION {LogImproving(<<g[i]>>, base) : i \in DOMAIN g}
  BY <1>1, <1>2, <1>3
<1> QED
  BY <1>4

LEMMA EntryIs ==
  ASSUME NEW d \in Domains, NEW e \in EntriesOf(d)
  PROVE  /\ e.domain = d /\ e.base \in BasesOf(d) /\ e.genome \in Seq(CandidatesOf(d))
         /\ e.base.metrics \in MetricsOf(d) /\ e.base.valid \in BOOLEAN
         /\ ToldBase(e).metrics \in MetricsOf(d)
<1>1. /\ e.domain = d /\ e.base \in BasesOf(d) /\ e.genome \in Seq(CandidatesOf(d))
      /\ e.base.metrics \in MetricsOf(d) /\ e.base.valid \in BOOLEAN
  BY DEF EntriesOf, BasesOf
<1>2. CASE d = "compiler"
  <2>1. e.base.metrics \in CompilerMetrics
    BY <1>1, <1>2, MetricsAre
  <2>2. [e.base.metrics EXCEPT !.misses = 0] \in CompilerMetrics
    BY <2>1 DEF CompilerMetrics
  <2>3. ToldBase(e).metrics = [e.base.metrics EXCEPT !.misses = 0]
    BY <1>1, <1>2 DEF ToldBase, BasesOf
  <2> QED
    BY <1>1, <1>2, <2>2, <2>3, MetricsAre
<1>3. CASE d # "compiler"
  BY <1>1, <1>3 DEF ToldBase
<1> QED
  BY <1>1, <1>2, <1>3

LEMMA CompilerReductionFraction ==
  ASSUME NEW x \in CompilerMetrics, NEW y \in CompilerMetrics
  PROVE  CompilerReduction(x, y) \in Fractions
<1>1. x.cycles \in Nat /\ y.cycles \in Nat
  BY DEF CompilerMetrics
<1> QED
  BY <1>1, RatioFraction DEF CompilerReduction

LEMMA CompilerGains ==
  ASSUME NEW e \in EntriesOf("compiler")
  PROVE  /\ \A c : Gains(e, c) = {CompilerReduction(e.base.metrics, m) : m \in CompilerImproving(<<c>>, ToldBase(e))}
         /\ \A g : Measure(e, g) = Fitness(g, UNION {Gains(e, g[i]) : i \in DOMAIN g})
         /\ \A c \in CandidatesOf("compiler") : Gains(e, c) \subseteq Fractions /\ AtMostOne(Gains(e, c))
<1>1. /\ e.domain = "compiler" /\ e.base.metrics \in CompilerMetrics /\ ToldBase(e).metrics \in CompilerMetrics
  BY EntryIs, MetricsAre DEF Domains
<1>2. \A c : Gains(e, c) = {CompilerReduction(e.base.metrics, m) : m \in CompilerImproving(<<c>>, ToldBase(e))}
  BY <1>1 DEF Gains
<1>3. ASSUME NEW g
      PROVE  Measure(e, g) = Fitness(g, UNION {Gains(e, g[i]) : i \in DOMAIN g})
  <2>1. Measure(e, g) = CompilerEvaluate(g, e.base)
    BY <1>1 DEF Measure
  <2>2. CompilerEvaluate(g, e.base) = Fitness(g, {CompilerReduction(e.base.metrics, m) : m \in CompilerImproving(g, ToldBase(e))})
    BY <1>1 DEF CompilerEvaluate, ToldBase
  <2>3. \A m : m \in CompilerImproving(g, ToldBase(e)) <=>
               \E i \in DOMAIN g : m \in CompilerImproving(<<g[i]>>, ToldBase(e))
    BY CompilerOneByOne
  <2> DEFINE R(m) == CompilerReduction(e.base.metrics, m)
             I(c) == CompilerImproving(<<c>>, ToldBase(e))
             J == CompilerImproving(g, ToldBase(e))
  <2>6. \A c : Gains(e, c) = {R(m) : m \in I(c)}
    BY <1>2
  <2>7. \A m : m \in J <=> \E i \in DOMAIN g : m \in I(g[i])
    BY <2>3
  <2>4. \A q : q \in {R(m) : m \in J} <=> \E i \in DOMAIN g : q \in Gains(e, g[i])
    <3> HIDE DEF R, I, J
    <3> QED
      BY <2>6, <2>7
  <2>5. {CompilerReduction(e.base.metrics, m) : m \in CompilerImproving(g, ToldBase(e))}
          = UNION {Gains(e, g[i]) : i \in DOMAIN g}
    BY <2>4
  <2> QED
    BY <2>1, <2>2, <2>5
<1>4. ASSUME NEW c \in CandidatesOf("compiler")
      PROVE  Gains(e, c) \subseteq Fractions /\ AtMostOne(Gains(e, c))
  <2>1. /\ CompilerApply(c, ToldBase(e).metrics) \subseteq CompilerMetrics
        /\ AtMostOne(CompilerApply(c, ToldBase(e).metrics))
    BY <1>1, CompilerYields
  <2>2. \A m \in CompilerImproving(<<c>>, ToldBase(e)) : m \in CompilerApply(c, ToldBase(e).metrics)
    BY DEF CompilerImproving
  <2>3. \A m \in CompilerImproving(<<c>>, ToldBase(e)) : CompilerReduction(e.base.metrics, m) \in Fractions
    BY <1>1, <2>1, <2>2, CompilerReductionFraction
  <2>4. \A m, n \in CompilerImproving(<<c>>, ToldBase(e)) : m = n
    BY <2>1, <2>2 DEF AtMostOne
  <2> QED
    BY <1>2, <2>3, <2>4 DEF AtMostOne
<1> QED
  BY <1>2, <1>3, <1>4

LEMMA SQLReductionFraction ==
  ASSUME NEW x \in SQLMetrics, NEW y \in SQLMetrics
  PROVE  SQLReduction(x, y) \in Fractions
<1>1. x.examined \in Nat /\ y.examined \in Nat
  BY DEF SQLMetrics
<1> QED
  BY <1>1, RatioFraction DEF SQLReduction

LEMMA SQLGains ==
  ASSUME NEW e \in EntriesOf("sql")
  PROVE  /\ \A c : Gains(e, c) = {SQLReduction(e.base.metrics, m) : m \in SQLImproving(<<c>>, ToldBase(e))}
         /\ \A g : Measure(e, g) = Fitness(g, UNION {Gains(e, g[i]) : i \in DOMAIN g})
         /\ \A c \in CandidatesOf("sql") : Gains(e, c) \subseteq Fractions /\ AtMostOne(Gains(e, c))
<1>1. /\ e.domain = "sql" /\ e.base.metrics \in SQLMetrics /\ ToldBase(e).metrics \in SQLMetrics
  BY EntryIs, MetricsAre DEF Domains
<1>2. \A c : Gains(e, c) = {SQLReduction(e.base.metrics, m) : m \in SQLImproving(<<c>>, ToldBase(e))}
  BY <1>1 DEF Gains
<1>3. ASSUME NEW g
      PROVE  Measure(e, g) = Fitness(g, UNION {Gains(e, g[i]) : i \in DOMAIN g})
  <2>1. Measure(e, g) = SQLEvaluate(g, e.base)
    BY <1>1 DEF Measure
  <2>2. SQLEvaluate(g, e.base) = Fitness(g, {SQLReduction(e.base.metrics, m) : m \in SQLImproving(g, ToldBase(e))})
    BY <1>1 DEF SQLEvaluate, ToldBase
  <2>3. \A m : m \in SQLImproving(g, ToldBase(e)) <=>
               \E i \in DOMAIN g : m \in SQLImproving(<<g[i]>>, ToldBase(e))
    BY SQLOneByOne
  <2> DEFINE R(m) == SQLReduction(e.base.metrics, m)
             I(c) == SQLImproving(<<c>>, ToldBase(e))
             J == SQLImproving(g, ToldBase(e))
  <2>6. \A c : Gains(e, c) = {R(m) : m \in I(c)}
    BY <1>2
  <2>7. \A m : m \in J <=> \E i \in DOMAIN g : m \in I(g[i])
    BY <2>3
  <2>4. \A q : q \in {R(m) : m \in J} <=> \E i \in DOMAIN g : q \in Gains(e, g[i])
    <3> HIDE DEF R, I, J
    <3> QED
      BY <2>6, <2>7
  <2>5. {SQLReduction(e.base.metrics, m) : m \in SQLImproving(g, ToldBase(e))}
          = UNION {Gains(e, g[i]) : i \in DOMAIN g}
    BY <2>4
  <2> QED
    BY <2>1, <2>2, <2>5
<1>4. ASSUME NEW c \in CandidatesOf("sql")
      PROVE  Gains(e, c) \subseteq Fractions /\ AtMostOne(Gains(e, c))
  <2>1. /\ SQLApply(c, ToldBase(e).metrics) \subseteq SQLMetrics
        /\ AtMostOne(SQLApply(c, ToldBase(e).metrics))
    BY <1>1, SQLYields
  <2>2. \A m \in SQLImproving(<<c>>, ToldBase(e)) : m \in SQLApply(c, ToldBase(e).metrics)
    BY DEF SQLImproving
  <2>3. \A m \in SQLImproving(<<c>>, ToldBase(e)) : SQLReduction(e.base.metrics, m) \in Fractions
    BY <1>1, <2>1, <2>2, SQLReductionFraction
  <2>4. \A m, n \in SQLImproving(<<c>>, ToldBase(e)) : m = n
    BY <2>1, <2>2 DEF AtMostOne
  <2> QED
    BY <1>2, <2>3, <2>4 DEF AtMostOne
<1> QED
  BY <1>2, <1>3, <1>4

LEMMA IaCReductionFraction ==
  ASSUME NEW x \in IaCMetrics, NEW y \in IaCMetrics
  PROVE  IaCReduction(x, y) \in Fractions
<1>1. x.resources \in Nat /\ y.resources \in Nat
  BY DEF IaCMetrics
<1> QED
  BY <1>1, RatioFraction DEF IaCReduction

LEMMA IaCGains ==
  ASSUME NEW e \in EntriesOf("iac")
  PROVE  /\ \A c : Gains(e, c) = {IaCReduction(e.base.metrics, m) : m \in IaCImproving(<<c>>, ToldBase(e))}
         /\ \A g : Measure(e, g) = Fitness(g, UNION {Gains(e, g[i]) : i \in DOMAIN g})
         /\ \A c \in CandidatesOf("iac") : Gains(e, c) \subseteq Fractions /\ AtMostOne(Gains(e, c))
<1>1. /\ e.domain = "iac" /\ e.base.metrics \in IaCMetrics /\ ToldBase(e).metrics \in IaCMetrics
  BY EntryIs, MetricsAre DEF Domains
<1>2. \A c : Gains(e, c) = {IaCReduction(e.base.metrics, m) : m \in IaCImproving(<<c>>, ToldBase(e))}
  BY <1>1 DEF Gains
<1>3. ASSUME NEW g
      PROVE  Measure(e, g) = Fitness(g, UNION {Gains(e, g[i]) : i \in DOMAIN g})
  <2>1. Measure(e, g) = IaCEvaluate(g, e.base)
    BY <1>1 DEF Measure
  <2>2. IaCEvaluate(g, e.base) = Fitness(g, {IaCReduction(e.base.metrics, m) : m \in IaCImproving(g, ToldBase(e))})
    BY <1>1 DEF IaCEvaluate, ToldBase
  <2>3. \A m : m \in IaCImproving(g, ToldBase(e)) <=>
               \E i \in DOMAIN g : m \in IaCImproving(<<g[i]>>, ToldBase(e))
    BY IaCOneByOne
  <2> DEFINE R(m) == IaCReduction(e.base.metrics, m)
             I(c) == IaCImproving(<<c>>, ToldBase(e))
             J == IaCImproving(g, ToldBase(e))
  <2>6. \A c : Gains(e, c) = {R(m) : m \in I(c)}
    BY <1>2
  <2>7. \A m : m \in J <=> \E i \in DOMAIN g : m \in I(g[i])
    BY <2>3
  <2>4. \A q : q \in {R(m) : m \in J} <=> \E i \in DOMAIN g : q \in Gains(e, g[i])
    <3> HIDE DEF R, I, J
    <3> QED
      BY <2>6, <2>7
  <2>5. {IaCReduction(e.base.metrics, m) : m \in IaCImproving(g, ToldBase(e))}
          = UNION {Gains(e, g[i]) : i \in DOMAIN g}
    BY <2>4
  <2> QED
    BY <2>1, <2>2, <2>5
<1>4. ASSUME NEW c \in CandidatesOf("iac")
      PROVE  Gains(e, c) \subseteq Fractions /\ AtMostOne(Gains(e, c))
  <2>1. /\ IaCApply(c, ToldBase(e).metrics) \subseteq IaCMetrics
        /\ AtMostOne(IaCApply(c, ToldBase(e).metrics))
    BY <1>1, IaCYields
  <2>2. \A m \in IaCImproving(<<c>>, ToldBase(e)) : m \in IaCApply(c, ToldBase(e).metrics)
    BY DEF IaCImproving
  <2>3. \A m \in IaCImproving(<<c>>, ToldBase(e)) : IaCReduction(e.base.metrics, m) \in Fractions
    BY <1>1, <2>1, <2>2, IaCReductionFraction
  <2>4. \A m, n \in IaCImproving(<<c>>, ToldBase(e)) : m = n
    BY <2>1, <2>2 DEF AtMostOne
  <2> QED
    BY <1>2, <2>3, <2>4 DEF AtMostOne
<1> QED
  BY <1>2, <1>3, <1>4

LEMMA SecurityReductionFraction ==
  ASSUME NEW x \in SecurityMetrics, NEW y \in SecurityMetrics
  PROVE  SecurityReduction(x, y) \in Fractions
<1>1. x.threats \in Nat /\ y.threats \in Nat
  BY DEF SecurityMetrics
<1> QED
  BY <1>1, RatioFraction DEF SecurityReduction

LEMMA SecurityGains ==
  ASSUME NEW e \in EntriesOf("security")
  PROVE  /\ \A c : Gains(e, c) = {SecurityReduction(e.base.metrics, m) : m \in SecurityImproving(<<c>>, ToldBase(e))}
         /\ \A g : Measure(e, g) = Fitness(g, UNION {Gains(e, g[i]) : i \in DOMAIN g})
         /\ \A c \in CandidatesOf("security") : Gains(e, c) \subseteq Fractions /\ AtMostOne(Gains(e, c))
<1>1. /\ e.domain = "security" /\ e.base.metrics \in SecurityMetrics /\ ToldBase(e).metrics \in SecurityMetrics
  BY EntryIs, MetricsAre DEF Domains
<1>2. \A c : Gains(e, c) = {SecurityReduction(e.base.metrics, m) : m \in SecurityImproving(<<c>>, ToldBase(e))}
  BY <1>1 DEF Gains
<1>3. ASSUME NEW g
      PROVE  Measure(e, g) = Fitness(g, UNION {Gains(e, g[i]) : i \in DOMAIN g})
  <2>1. Measure(e, g) = SecurityEvaluate(g, e.base)
    BY <1>1 DEF Measure
  <2>2. SecurityEvaluate(g, e.base) = Fitness(g, {SecurityReduction(e.base.metrics, m) : m \in SecurityImproving(g, ToldBase(e))})
    BY <1>1 DEF SecurityEvaluate, ToldBase
  <2>3. \A m : m \in SecurityImproving(g, ToldBase(e)) <=>
               \E i \in DOMAIN g : m \in SecurityImproving(<<g[i]>>, ToldBase(e))
    BY SecurityOneByOne
  <2> DEFINE R(m) == SecurityReduction(e.base.metrics, m)
             I(c) == SecurityImproving(<<c>>, ToldBase(e))
             J == SecurityImproving(g, ToldBase(e))
  <2>6. \A c : Gains(e, c) = {R(m) : m \in I(c)}
    BY <1>2
  <2>7. \A m : m \in J <=> \E i \in DOMAIN g : m \in I(g[i])
    BY <2>3
  <2>4. \A q : q \in {R(m) : m \in J} <=> \E i \in DOMAIN g : q \in Gains(e, g[i])
    <3> HIDE DEF R, I, J
    <3> QED
      BY <2>6, <2>7
  <2>5. {SecurityReduction(e.base.metrics, m) : m \in SecurityImproving(g, ToldBase(e))}
          = UNION {Gains(e, g[i]) : i \in DOMAIN g}
    BY <2>4
  <2> QED
    BY <2>1, <2>2, <2>5
<1>4. ASSUME NEW c \in CandidatesOf("security")
      PROVE  Gains(e, c) \subseteq Fractions /\ AtMostOne(Gains(e, c))
  <2>1. /\ SecurityApply(c, ToldBase(e).metrics) \subseteq SecurityMetrics
        /\ AtMostOne(SecurityApply(c, ToldBase(e).metrics))
    BY <1>1, SecurityYields
  <2>2. \A m \in SecurityImproving(<<c>>, ToldBase(e)) : m \in SecurityApply(c, ToldBase(e).metrics)
    BY DEF SecurityImproving
  <2>3. \A m \in SecurityImproving(<<c>>, ToldBase(e)) : SecurityReduction(e.base.metrics, m) \in Fractions
    BY <1>1, <2>1, <2>2, SecurityReductionFraction
  <2>4. \A m, n \in SecurityImproving(<<c>>, ToldBase(e)) : m = n
    BY <2>1, <2>2 DEF AtMostOne
  <2> QED
    BY <1>2, <2>3, <2>4 DEF AtMostOne
<1> QED
  BY <1>2, <1>3, <1>4

LEMMA MLReductionFraction ==
  ASSUME NEW x \in MLMetrics, NEW y \in MLMetrics
  PROVE  MLReduction(x, y) \in Fractions
<1>1. x.loss \in Nat /\ y.loss \in Nat
  BY DEF MLMetrics
<1> QED
  BY <1>1, RatioFraction DEF MLReduction

LEMMA MLGains ==
  ASSUME NEW e \in EntriesOf("ml")
  PROVE  /\ \A c : Gains(e, c) = {MLReduction(e.base.metrics, m) : m \in MLImproving(<<c>>, ToldBase(e))}
         /\ \A g : Measure(e, g) = Fitness(g, UNION {Gains(e, g[i]) : i \in DOMAIN g})
         /\ \A c \in CandidatesOf("ml") : Gains(e, c) \subseteq Fractions /\ AtMostOne(Gains(e, c))
<1>1. /\ e.domain = "ml" /\ e.base.metrics \in MLMetrics /\ ToldBase(e).metrics \in MLMetrics
  BY EntryIs, MetricsAre DEF Domains
<1>2. \A c : Gains(e, c) = {MLReduction(e.base.metrics, m) : m \in MLImproving(<<c>>, ToldBase(e))}
  BY <1>1 DEF Gains
<1>3. ASSUME NEW g
      PROVE  Measure(e, g) = Fitness(g, UNION {Gains(e, g[i]) : i \in DOMAIN g})
  <2>1. Measure(e, g) = MLEvaluate(g, e.base)
    BY <1>1 DEF Measure
  <2>2. MLEvaluate(g, e.base) = Fitness(g, {MLReduction(e.base.metrics, m) : m \in MLImproving(g, ToldBase(e))})
    BY <1>1 DEF MLEvaluate, ToldBase
  <2>3. \A m : m \in MLImproving(g, ToldBase(e)) <=>
               \E i \in DOMAIN g : m \in MLImproving(<<g[i]>>, ToldBase(e))
    BY MLOneByOne
  <2> DEFINE R(m) == MLReduction(e.base.metrics, m)
             I(c) == MLImproving(<<c>>, ToldBase(e))
             J == MLImproving(g, ToldBase(e))
  <2>6. \A c : Gains(e, c) = {R(m) : m \in I(c)}
    BY <1>2
  <2>7. \A m : m \in J <=> \E i \in DOMAIN g : m \in I(g[i])
    BY <2>3
  <2>4. \A q : q \in {R(m) : m \in J} <=> \E i \in DOMAIN g : q \in Gains(e, g[i])
    <3> HIDE DEF R, I, J
    <3> QED
      BY <2>6, <2>7
  <2>5. {MLReduction(e.base.metrics, m) : m \in MLImproving(g, ToldBase(e))}
          = UNION {Gains(e, g[i]) : i \in DOMAIN g}
    BY <2>4
  <2> QED
    BY <2>1, <2>2, <2>5
<1>4. ASSUME NEW c \in CandidatesOf("ml")
      PROVE  Gains(e, c) \subseteq Fractions /\ AtMostOne(Gains(e, c))
  <2>1. /\ MLApply(c, ToldBase(e).metrics) \subseteq MLMetrics
        /\ AtMostOne(MLApply(c, ToldBase(e).metrics))
    BY <1>1, MLYields
  <2>2. \A m \in MLImproving(<<c>>, ToldBase(e)) : m \in MLApply(c, ToldBase(e).metrics)
    BY DEF MLImproving
  <2>3. \A m \in MLImproving(<<c>>, ToldBase(e)) : MLReduction(e.base.metrics, m) \in Fractions
    BY <1>1, <2>1, <2>2, MLReductionFraction
  <2>4. \A m, n \in MLImproving(<<c>>, ToldBase(e)) : m = n
    BY <2>1, <2>2 DEF AtMostOne
  <2> QED
    BY <1>2, <2>3, <2>4 DEF AtMostOne
<1> QED
  BY <1>2, <1>3, <1>4

LEMMA NetworkReductionFraction ==
  ASSUME NEW x \in NetworkMetrics, NEW y \in NetworkMetrics
  PROVE  NetworkReduction(x, y) \in Fractions
<1>1. x.latency \in Nat /\ y.latency \in Nat
  BY DEF NetworkMetrics
<1> QED
  BY <1>1, RatioFraction DEF NetworkReduction

LEMMA NetworkGains ==
  ASSUME NEW e \in EntriesOf("network")
  PROVE  /\ \A c : Gains(e, c) = {NetworkReduction(e.base.metrics, m) : m \in NetworkImproving(<<c>>, ToldBase(e))}
         /\ \A g : Measure(e, g) = Fitness(g, UNION {Gains(e, g[i]) : i \in DOMAIN g})
         /\ \A c \in CandidatesOf("network") : Gains(e, c) \subseteq Fractions /\ AtMostOne(Gains(e, c))
<1>1. /\ e.domain = "network" /\ e.base.metrics \in NetworkMetrics /\ ToldBase(e).metrics \in NetworkMetrics
  BY EntryIs, MetricsAre DEF Domains
<1>2. \A c : Gains(e, c) = {NetworkReduction(e.base.metrics, m) : m \in NetworkImproving(<<c>>, ToldBase(e))}
  BY <1>1 DEF Gains
<1>3. ASSUME NEW g
      PROVE  Measure(e, g) = Fitness(g, UNION {Gains(e, g[i]) : i \in DOMAIN g})
  <2>1. Measure(e, g) = NetworkEvaluate(g, e.base)
    BY <1>1 DEF Measure
  <2>2. NetworkEvaluate(g, e.base) = Fitness(g, {NetworkReduction(e.base.metrics, m) : m \in NetworkImproving(g, ToldBase(e))})
    BY <1>1 DEF NetworkEvaluate, ToldBase
  <2>3. \A m : m \in NetworkImproving(g, ToldBase(e)) <=>
               \E i \in DOMAIN g : m \in NetworkImproving(<<g[i]>>, ToldBase(e))
    BY NetworkOneByOne
  <2> DEFINE R(m) == NetworkReduction(e.base.metrics, m)
             I(c) == NetworkImproving(<<c>>, ToldBase(e))
             J == NetworkImproving(g, ToldBase(e))
  <2>6. \A c : Gains(e, c) = {R(m) : m \in I(c)}
    BY <1>2
  <2>7. \A m : m \in J <=> \E i \in DOMAIN g : m \in I(g[i])
    BY <2>3
  <2>4. \A q : q \in {R(m) : m \in J} <=> \E i \in DOMAIN g : q \in Gains(e, g[i])
    <3> HIDE DEF R, I, J
    <3> QED
      BY <2>6, <2>7
  <2>5. {NetworkReduction(e.base.metrics, m) : m \in NetworkImproving(g, ToldBase(e))}
          = UNION {Gains(e, g[i]) : i \in DOMAIN g}
    BY <2>4
  <2> QED
    BY <2>1, <2>2, <2>5
<1>4. ASSUME NEW c \in CandidatesOf("network")
      PROVE  Gains(e, c) \subseteq Fractions /\ AtMostOne(Gains(e, c))
  <2>1. /\ NetworkApply(c, ToldBase(e).metrics) \subseteq NetworkMetrics
        /\ AtMostOne(NetworkApply(c, ToldBase(e).metrics))
    BY <1>1, NetworkYields
  <2>2. \A m \in NetworkImproving(<<c>>, ToldBase(e)) : m \in NetworkApply(c, ToldBase(e).metrics)
    BY DEF NetworkImproving
  <2>3. \A m \in NetworkImproving(<<c>>, ToldBase(e)) : NetworkReduction(e.base.metrics, m) \in Fractions
    BY <1>1, <2>1, <2>2, NetworkReductionFraction
  <2>4. \A m, n \in NetworkImproving(<<c>>, ToldBase(e)) : m = n
    BY <2>1, <2>2 DEF AtMostOne
  <2> QED
    BY <1>2, <2>3, <2>4 DEF AtMostOne
<1> QED
  BY <1>2, <1>3, <1>4

LEMMA StorageReductionFraction ==
  ASSUME NEW x \in StorageMetrics, NEW y \in StorageMetrics
  PROVE  StorageReduction(x, y) \in Fractions
<1>1. x.bytes \in Nat /\ y.bytes \in Nat
  BY DEF StorageMetrics
<1> QED
  BY <1>1, RatioFraction DEF StorageReduction

LEMMA StorageGains ==
  ASSUME NEW e \in EntriesOf("storage")
  PROVE  /\ \A c : Gains(e, c) = {StorageReduction(e.base.metrics, m) : m \in StorageImproving(<<c>>, ToldBase(e))}
         /\ \A g : Measure(e, g) = Fitness(g, UNION {Gains(e, g[i]) : i \in DOMAIN g})
         /\ \A c \in CandidatesOf("storage") : Gains(e, c) \subseteq Fractions /\ AtMostOne(Gains(e, c))
<1>1. /\ e.domain = "storage" /\ e.base.metrics \in StorageMetrics /\ ToldBase(e).metrics \in StorageMetrics
  BY EntryIs, MetricsAre DEF Domains
<1>2. \A c : Gains(e, c) = {StorageReduction(e.base.metrics, m) : m \in StorageImproving(<<c>>, ToldBase(e))}
  BY <1>1 DEF Gains
<1>3. ASSUME NEW g
      PROVE  Measure(e, g) = Fitness(g, UNION {Gains(e, g[i]) : i \in DOMAIN g})
  <2>1. Measure(e, g) = StorageEvaluate(g, e.base)
    BY <1>1 DEF Measure
  <2>2. StorageEvaluate(g, e.base) = Fitness(g, {StorageReduction(e.base.metrics, m) : m \in StorageImproving(g, ToldBase(e))})
    BY <1>1 DEF StorageEvaluate, ToldBase
  <2>3. \A m : m \in StorageImproving(g, ToldBase(e)) <=>
               \E i \in DOMAIN g : m \in StorageImproving(<<g[i]>>, ToldBase(e))
    BY StorageOneByOne
  <2> DEFINE R(m) == StorageReduction(e.base.metrics, m)
             I(c) == StorageImproving(<<c>>, ToldBase(e))
             J == StorageImproving(g, ToldBase(e))
  <2>6. \A c : Gains(e, c) = {R(m) : m \in I(c)}
    BY <1>2
  <2>7. \A m : m \in J <=> \E i \in DOMAIN g : m \in I(g[i])
    BY <2>3
  <2>4. \A q : q \in {R(m) : m \in J} <=> \E i \in DOMAIN g : q \in Gains(e, g[i])
    <3> HIDE DEF R, I, J
    <3> QED
      BY <2>6, <2>7
  <2>5. {StorageReduction(e.base.metrics, m) : m \in StorageImproving(g, ToldBase(e))}
          = UNION {Gains(e, g[i]) : i \in DOMAIN g}
    BY <2>4
  <2> QED
    BY <2>1, <2>2, <2>5
<1>4. ASSUME NEW c \in CandidatesOf("storage")
      PROVE  Gains(e, c) \subseteq Fractions /\ AtMostOne(Gains(e, c))
  <2>1. /\ StorageApply(c, ToldBase(e).metrics) \subseteq StorageMetrics
        /\ AtMostOne(StorageApply(c, ToldBase(e).metrics))
    BY <1>1, StorageYields
  <2>2. \A m \in StorageImproving(<<c>>, ToldBase(e)) : m \in StorageApply(c, ToldBase(e).metrics)
    BY DEF StorageImproving
  <2>3. \A m \in StorageImproving(<<c>>, ToldBase(e)) : StorageReduction(e.base.metrics, m) \in Fractions
    BY <1>1, <2>1, <2>2, StorageReductionFraction
  <2>4. \A m, n \in StorageImproving(<<c>>, ToldBase(e)) : m = n
    BY <2>1, <2>2 DEF AtMostOne
  <2> QED
    BY <1>2, <2>3, <2>4 DEF AtMostOne
<1> QED
  BY <1>2, <1>3, <1>4

LEMMA LogReductionFraction ==
  ASSUME NEW x \in LogMetrics, NEW y \in LogMetrics
  PROVE  LogReduction(x, y) \in Fractions
<1>1. x.errors \in Nat /\ y.errors \in Nat /\ x.volume \in Nat /\ y.volume \in Nat
  BY DEF LogMetrics
<1>0. Ratio(x.errors, y.errors) \in Fractions /\ Ratio(x.volume, y.volume) \in Fractions
  BY <1>1, RatioFraction
<1>2. PICK a \in Int, b \in Nat \ {0} : Ratio(x.errors, y.errors) = <<a, b>>
  BY <1>0 DEF Fractions
<1>3. PICK f \in Int, k \in Nat \ {0} : Ratio(x.volume, y.volume) = <<f, k>>
  BY <1>0 DEF Fractions
<1>4. LogReduction(x, y) = <<7 * a * k + 3 * f * b, 10 * b * k>>
  BY <1>2, <1>3 DEF LogReduction
<1>5. a * k \in Int /\ f * b \in Int /\ b * k \in Nat \ {0}
  OBVIOUS
<1>6. 7 * a * k + 3 * f * b \in Int /\ 10 * b * k \in Nat \ {0}
  <2>1. 7 * a * k = 7 * (a * k) /\ 3 * f * b = 3 * (f * b) /\ 10 * b * k = 10 * (b * k)
    BY Z3
  <2> QED
    BY <1>5, <2>1
<1> QED
  BY <1>4, <1>6 DEF Fractions

LEMMA LogGains ==
  ASSUME NEW e \in EntriesOf("log")
  PROVE  /\ \A c : Gains(e, c) = {LogReduction(e.base.metrics, m) : m \in LogImproving(<<c>>, ToldBase(e))}
         /\ \A g : Measure(e, g) = Fitness(g, UNION {Gains(e, g[i]) : i \in DOMAIN g})
         /\ \A c \in CandidatesOf("log") : Gains(e, c) \subseteq Fractions /\ AtMostOne(Gains(e, c))
<1>1. /\ e.domain = "log" /\ e.base.metrics \in LogMetrics /\ ToldBase(e).metrics \in LogMetrics
  BY EntryIs, MetricsAre DEF Domains
<1>2. \A c : Gains(e, c) = {LogReduction(e.base.metrics, m) : m \in LogImproving(<<c>>, ToldBase(e))}
  BY <1>1 DEF Gains
<1>3. ASSUME NEW g
      PROVE  Measure(e, g) = Fitness(g, UNION {Gains(e, g[i]) : i \in DOMAIN g})
  <2>1. Measure(e, g) = LogEvaluate(g, e.base)
    BY <1>1 DEF Measure
  <2>2. LogEvaluate(g, e.base) = Fitness(g, {LogReduction(e.base.metrics, m) : m \in LogImproving(g, ToldBase(e))})
    BY <1>1 DEF LogEvaluate, ToldBase
  <2>3. \A m : m \in LogImproving(g, ToldBase(e)) <=>
               \E i \in DOMAIN g : m \in LogImproving(<<g[i]>>, ToldBase(e))
    BY LogOneByOne
  <2> DEFINE R(m) == LogReduction(e.base.metrics, m)
             I(c) == LogImproving(<<c>>, ToldBase(e))
             J == LogImproving(g, ToldBase(e))
  <2>6. \A c : Gains(e, c) = {R(m) : m \in I(c)}
    BY <1>2
  <2>7. \A m : m \in J <=> \E i \in DOMAIN g : m \in I(g[i])
    BY <2>3
  <2>4. \A q : q \in {R(m) : m \in J} <=> \E i \in DOMAIN g : q \in Gains(e, g[i])
    <3> HIDE DEF R, I, J
    <3> QED
      BY <2>6, <2>7
  <2>5. {LogReduction(e.base.metrics, m) : m \in LogImproving(g, ToldBase(e))}
          = UNION {Gains(e, g[i]) : i \in DOMAIN g}
    BY <2>4
  <2> QED
    BY <2>1, <2>2, <2>5
<1>4. ASSUME NEW c \in CandidatesOf("log")
      PROVE  Gains(e, c) \subseteq Fractions /\ AtMostOne(Gains(e, c))
  <2>1. /\ LogApply(c, ToldBase(e).metrics) \subseteq LogMetrics
        /\ AtMostOne(LogApply(c, ToldBase(e).metrics))
    BY <1>1, LogYields
  <2>2. \A m \in LogImproving(<<c>>, ToldBase(e)) : m \in LogApply(c, ToldBase(e).metrics)
    BY DEF LogImproving
  <2>3. \A m \in LogImproving(<<c>>, ToldBase(e)) : LogReduction(e.base.metrics, m) \in Fractions
    BY <1>1, <2>1, <2>2, LogReductionFraction
  <2>4. \A m, n \in LogImproving(<<c>>, ToldBase(e)) : m = n
    BY <2>1, <2>2 DEF AtMostOne
  <2> QED
    BY <1>2, <2>3, <2>4 DEF AtMostOne
<1> QED
  BY <1>2, <1>3, <1>4

(* What the engine measures of a genome, in any domain.                    *)
LEMMA GainsAre ==
  ASSUME NEW e \in AllEntries
  PROVE  /\ e.domain \in Domains /\ e \in EntriesOf(e.domain)
         /\ e.genome \in Seq(CandidatesOf(e.domain))
         /\ \A g : Measure(e, g) = Fitness(g, UNION {Gains(e, g[i]) : i \in DOMAIN g})
         /\ \A c \in CandidatesOf(e.domain) : Gains(e, c) \subseteq Fractions /\ AtMostOne(Gains(e, c))
<1>1. PICK d \in Domains : e \in EntriesOf(d)
  BY DEF AllEntries
<1>2. e.domain = d /\ e.genome \in Seq(CandidatesOf(d))
  BY <1>1, EntryIs
<1>3. CASE d = "compiler"
  BY <1>1, <1>2, <1>3, CompilerGains
<1>4. CASE d = "sql"
  BY <1>1, <1>2, <1>4, SQLGains
<1>5. CASE d = "iac"
  BY <1>1, <1>2, <1>5, IaCGains
<1>6. CASE d = "security"
  BY <1>1, <1>2, <1>6, SecurityGains
<1>7. CASE d = "ml"
  BY <1>1, <1>2, <1>7, MLGains
<1>8. CASE d = "network"
  BY <1>1, <1>2, <1>8, NetworkGains
<1>9. CASE d = "storage"
  BY <1>1, <1>2, <1>9, StorageGains
<1>10. CASE d = "log"
  BY <1>1, <1>2, <1>10, LogGains
<1> QED
  BY <1>1, <1>3, <1>4, <1>5, <1>6, <1>7, <1>8, <1>9, <1>10 DEF Domains

(* A genome's fitness tells whether some candidate improves the baseline,  *)
(* and the greatest reduction.                                             *)
GainsOf(e, g) == UNION {Gains(e, g[i]) : i \in 1 .. Len(g)}

LEMMA MeasureIs ==
  ASSUME NEW e \in AllEntries, NEW g \in Seq(CandidatesOf(e.domain))
  PROVE  /\ GainsOf(e, g) \subseteq Fractions
         /\ Measure(e, g) = Fitness(g, GainsOf(e, g))
         /\ Measure(e, g).cost = Len(g)
         /\ Measure(e, g).regression = (GainsOf(e, g) = {})
         /\ Measure(e, g).quality \in GainsOf(e, g) \cup {Zero}
         /\ Measure(e, g).quality \in Fractions
         /\ \A r \in GainsOf(e, g) \cup {Zero} : ~Less(Measure(e, g).quality, r)
<1> DEFINE T == {Gains(e, g[i]) : i \in 1 .. Len(g)}
           R == UNION T
<1>1. DOMAIN g = 1 .. Len(g) /\ Len(g) \in Nat /\ \A i \in 1 .. Len(g) : g[i] \in CandidatesOf(e.domain)
  OBVIOUS
<1>2. \A i \in 1 .. Len(g) : Gains(e, g[i]) \subseteq Fractions /\ AtMostOne(Gains(e, g[i]))
  BY <1>1, GainsAre
<1>3. R \in SUBSET Fractions
  BY <1>2
<1>4. IsFiniteSet(R)
  <2> DEFINE f == [i \in 1 .. Len(g) |-> Gains(e, g[i])]
  <2>1. f \in Surjection(1 .. Len(g), T)
    BY DEF Surjection
  <2>2. IsFiniteSet(1 .. Len(g))
    BY <1>1, FS_Interval
  <2>3. \A t \in T : IsFiniteSet(t)
    BY <1>2, AtMostOneFinite
  <2> HIDE DEF f, T
  <2>4. IsFiniteSet(T)
    BY <2>1, <2>2, FS_Surjection
  <2> QED
    BY <2>3, <2>4, FS_UNION
<1>5. Measure(e, g) = Fitness(g, R)
  BY <1>1, GainsAre
<1> HIDE DEF R
<1>6. LET f == Fitness(g, R)
      IN /\ f.cost = Len(g)
         /\ f.regression = (R = {})
         /\ f.quality \in R \cup {Zero}
         /\ \A r \in R \cup {Zero} : ~Less(f.quality, r)
  BY <1>3, <1>4, FitnessIs
<1>7. Fitness(g, R).quality \in Fractions
  BY <1>3, <1>6, ZeroFraction
<1>8. GainsOf(e, g) = R
  BY DEF R, GainsOf
<1> QED
  BY <1>3, <1>5, <1>6, <1>7, <1>8

(* The part of a genome that is measured.                                  *)
LEMMA PrefixIs ==
  ASSUME NEW S, NEW g \in Seq(S), NEW n \in Int
  PROVE  /\ Prefix(g, n) \in Seq(S)
         /\ Len(Prefix(g, n)) \in 0 .. Len(g)
         /\ \A i \in 1 .. Len(Prefix(g, n)) : Prefix(g, n)[i] = g[i]
<1> DEFINE k == IF n >= 0 THEN Least(n, Len(g)) ELSE Minus(Len(g), -n)
<1>1. k \in 0 .. Len(g)
  BY DEF Least, Minus, Greatest
<1>2. Prefix(g, n) = SubSeq(g, 1, k)
  BY DEF Prefix
<1> HIDE DEF k
<1>3. /\ SubSeq(g, 1, k) \in Seq(S) /\ Len(SubSeq(g, 1, k)) = k
      /\ \A i \in 1 .. k : SubSeq(g, 1, k)[i] = g[i]
  BY <1>1
<1> QED
  BY <1>1, <1>2, <1>3

LEMMA PrefixLength ==
  ASSUME NEW S, NEW g \in Seq(S), NEW h \in Seq(S), Len(h) = Len(g), NEW n \in Int
  PROVE  Len(Prefix(h, n)) = Len(Prefix(g, n))
<1> DEFINE k == IF n >= 0 THEN Least(n, Len(g)) ELSE Minus(Len(g), -n)
<1>1. k \in 0 .. Len(g)
  BY DEF Least, Minus, Greatest
<1>2. Prefix(g, n) = SubSeq(g, 1, k) /\ Prefix(h, n) = SubSeq(h, 1, k)
  BY DEF Prefix
<1> HIDE DEF k
<1>3. Len(SubSeq(g, 1, k)) = k /\ Len(SubSeq(h, 1, k)) = k
  BY <1>1
<1> QED
  BY <1>2, <1>3

(* A mutation changes the knob of one candidate, or nothing.               *)
OneKnob(g, h) ==
  \/ h = g
  \/ \E k \in 1 .. Len(g) : /\ h = [g EXCEPT ![k].knob = h[k].knob]
                            /\ \A i \in 1 .. Len(g) : i # k => h[i] = g[i]

LEMMA MutateFirstIs ==
  ASSUME NEW d, NEW g \in Seq(CandidatesOf(d)),
         NEW bumpable, NEW knobs \in [1 .. Len(g) -> Int]
  PROVE  LET h == MutateFirst(g, bumpable, knobs)
         IN /\ h \in Seq(CandidatesOf(d))
            /\ Len(h) = Len(g)
            /\ OneKnob(g, h)
<1> DEFINE C == CandidatesOf(d)
           First(i) == i \in bumpable /\ \A j \in bumpable : i <= j
           h == MutateFirst(g, bumpable, knobs)
<1>1. PICK n \in Nat : n = Len(g)
  OBVIOUS
<1>2. DOMAIN g = 1 .. n /\ \A i \in 1 .. n : g[i] \in C
  BY <1>1
<1>3. h = [i \in 1 .. n |-> IF First(i) THEN [g[i] EXCEPT !.knob = knobs[i]] ELSE g[i]]
  BY <1>2 DEF MutateFirst
<1>4. \A i, j \in 1 .. n : First(i) /\ First(j) => i = j
  OBVIOUS
<1> HIDE DEF First, h
<1>5. ASSUME NEW i \in 1 .. n
      PROVE  /\ h[i] \in C
             /\ ~First(i) => h[i] = g[i]
             /\ h[i] = [g[i] EXCEPT !.knob = h[i].knob]
  <2>1. knobs[i] \in Int /\ g[i] \in C
    BY <1>1, <1>2
  <2>2. CASE First(i)
    BY <1>3, <2>1, <2>2 DEF CandidatesOf
  <2>3. CASE ~First(i)
    BY <1>3, <2>1, <2>3 DEF CandidatesOf
  <2> QED
    BY <2>2, <2>3
<1>6. h \in Seq(C) /\ Len(h) = n
  <2>1. h \in [1 .. n -> C]
    BY <1>3, <1>5
  <2> QED
    BY <2>1
<1>7. OneKnob(g, h)
  <2>1. CASE \A i \in 1 .. n : ~First(i)
    <3>1. \A i \in 1 .. n : h[i] = g[i]
      BY <1>5, <2>1
    <3>2. h = g
      BY <1>1, <1>6, <3>1
    <3> QED
      BY <3>2 DEF OneKnob
  <2>2. CASE \E i \in 1 .. n : First(i)
    <3>1. PICK k \in 1 .. n : First(k)
      BY <2>2
    <3>2. \A i \in 1 .. n : i # k => h[i] = g[i]
      BY <1>4, <1>5, <3>1
    <3>3. h[k] = [g[k] EXCEPT !.knob = h[k].knob]
      BY <1>5
    <3> DEFINE x == h[k].knob
               f == [g EXCEPT ![k].knob = x]
    <3>4. f = [i \in 1 .. n |-> IF i = k THEN [g[k] EXCEPT !.knob = x] ELSE g[i]]
      BY <1>2
    <3>5. h = [i \in 1 .. n |-> h[i]]
      BY <1>3
    <3>6. \A i \in 1 .. n : h[i] = f[i]
      BY <3>2, <3>3, <3>4
    <3>7. h = f
      BY <3>4, <3>5, <3>6
    <3> QED
      BY <1>1, <3>2, <3>7 DEF OneKnob
  <2> QED
    BY <2>1, <2>2
<1> QED
  BY <1>1, <1>6, <1>7 DEF h

LEMMA CompilerMutateIs ==
  ASSUME NEW e \in EntriesOf("compiler")
  PROVE  /\ Mutate(e) \in Seq(CandidatesOf("compiler"))
         /\ Len(Mutate(e)) = Len(e.genome)
         /\ OneKnob(e.genome, Mutate(e))
<1> DEFINE g == e.genome
           bumpable == {i \in DOMAIN g : CompilerBumpable(g[i])}
           knobs == [i \in DOMAIN g |-> CompilerBump(g[i])]
<1>1. e.domain = "compiler" /\ g \in Seq(CandidatesOf("compiler"))
  BY EntryIs DEF Domains
<1>2. \A c \in CandidatesOf("compiler") : CompilerBump(c) \in Int
  <2> TAKE c \in CandidatesOf("compiler")
  <2>1. c.knob \in Int
    BY DEF CandidatesOf
  <2> QED
    BY <2>1 DEF CompilerBump, Least, Greatest
<1>3. knobs \in [1 .. Len(g) -> Int]
  BY <1>1, <1>2
<1>4. Mutate(e) = MutateFirst(g, bumpable, knobs)
  BY <1>1 DEF Mutate, CompilerMutate
<1> HIDE DEF bumpable, knobs
<1> QED
  BY <1>1, <1>3, <1>4, MutateFirstIs

LEMMA SQLMutateIs ==
  ASSUME NEW e \in EntriesOf("sql")
  PROVE  /\ Mutate(e) \in Seq(CandidatesOf("sql"))
         /\ Len(Mutate(e)) = Len(e.genome)
         /\ OneKnob(e.genome, Mutate(e))
<1> DEFINE g == e.genome
           bumpable == {i \in DOMAIN g : SQLBumpable(g[i])}
           knobs == [i \in DOMAIN g |-> SQLBump(g[i])]
<1>1. e.domain = "sql" /\ g \in Seq(CandidatesOf("sql"))
  BY EntryIs DEF Domains
<1>2. \A c \in CandidatesOf("sql") : SQLBump(c) \in Int
  <2> TAKE c \in CandidatesOf("sql")
  <2>1. c.knob \in Int
    BY DEF CandidatesOf
  <2> QED
    BY <2>1 DEF SQLBump, Least, Greatest
<1>3. knobs \in [1 .. Len(g) -> Int]
  BY <1>1, <1>2
<1>4. Mutate(e) = MutateFirst(g, bumpable, knobs)
  BY <1>1 DEF Mutate, SQLMutate
<1> HIDE DEF bumpable, knobs
<1> QED
  BY <1>1, <1>3, <1>4, MutateFirstIs

LEMMA IaCMutateIs ==
  ASSUME NEW e \in EntriesOf("iac")
  PROVE  /\ Mutate(e) \in Seq(CandidatesOf("iac"))
         /\ Len(Mutate(e)) = Len(e.genome)
         /\ OneKnob(e.genome, Mutate(e))
<1> DEFINE g == e.genome
           bumpable == {i \in DOMAIN g : IaCBumpable(g[i])}
           knobs == [i \in DOMAIN g |-> IaCBump(g[i])]
<1>1. e.domain = "iac" /\ g \in Seq(CandidatesOf("iac"))
  BY EntryIs DEF Domains
<1>2. \A c \in CandidatesOf("iac") : IaCBump(c) \in Int
  <2> TAKE c \in CandidatesOf("iac")
  <2>1. c.knob \in Int
    BY DEF CandidatesOf
  <2> QED
    BY <2>1 DEF IaCBump, Least, Greatest
<1>3. knobs \in [1 .. Len(g) -> Int]
  BY <1>1, <1>2
<1>4. Mutate(e) = MutateFirst(g, bumpable, knobs)
  BY <1>1 DEF Mutate, IaCMutate
<1> HIDE DEF bumpable, knobs
<1> QED
  BY <1>1, <1>3, <1>4, MutateFirstIs

LEMMA SecurityMutateIs ==
  ASSUME NEW e \in EntriesOf("security")
  PROVE  /\ Mutate(e) \in Seq(CandidatesOf("security"))
         /\ Len(Mutate(e)) = Len(e.genome)
         /\ OneKnob(e.genome, Mutate(e))
<1> DEFINE g == e.genome
           bumpable == {i \in DOMAIN g : SecurityBumpable(g[i])}
           knobs == [i \in DOMAIN g |-> SecurityBump(g[i])]
<1>1. e.domain = "security" /\ g \in Seq(CandidatesOf("security"))
  BY EntryIs DEF Domains
<1>2. \A c \in CandidatesOf("security") : SecurityBump(c) \in Int
  <2> TAKE c \in CandidatesOf("security")
  <2>1. c.knob \in Int
    BY DEF CandidatesOf
  <2> QED
    BY <2>1 DEF SecurityBump, Least, Greatest
<1>3. knobs \in [1 .. Len(g) -> Int]
  BY <1>1, <1>2
<1>4. Mutate(e) = MutateFirst(g, bumpable, knobs)
  BY <1>1 DEF Mutate, SecurityMutate
<1> HIDE DEF bumpable, knobs
<1> QED
  BY <1>1, <1>3, <1>4, MutateFirstIs

LEMMA MLMutateIs ==
  ASSUME NEW e \in EntriesOf("ml")
  PROVE  /\ Mutate(e) \in Seq(CandidatesOf("ml"))
         /\ Len(Mutate(e)) = Len(e.genome)
         /\ OneKnob(e.genome, Mutate(e))
<1> DEFINE g == e.genome
           bumpable == {i \in DOMAIN g : MLBumpable(g[i])}
           knobs == [i \in DOMAIN g |-> MLBump(g[i])]
<1>1. e.domain = "ml" /\ g \in Seq(CandidatesOf("ml"))
  BY EntryIs DEF Domains
<1>2. \A c \in CandidatesOf("ml") : MLBump(c) \in Int
  <2> TAKE c \in CandidatesOf("ml")
  <2>1. c.knob \in Int
    BY DEF CandidatesOf
  <2> QED
    BY <2>1 DEF MLBump, Least, Greatest
<1>3. knobs \in [1 .. Len(g) -> Int]
  BY <1>1, <1>2
<1>4. Mutate(e) = MutateFirst(g, bumpable, knobs)
  BY <1>1 DEF Mutate, MLMutate
<1> HIDE DEF bumpable, knobs
<1> QED
  BY <1>1, <1>3, <1>4, MutateFirstIs

LEMMA StorageMutateIs ==
  ASSUME NEW e \in EntriesOf("storage")
  PROVE  /\ Mutate(e) \in Seq(CandidatesOf("storage"))
         /\ Len(Mutate(e)) = Len(e.genome)
         /\ OneKnob(e.genome, Mutate(e))
<1> DEFINE g == e.genome
           bumpable == {i \in DOMAIN g : StorageBumpable(g[i])}
           knobs == [i \in DOMAIN g |-> StorageBump(g[i])]
<1>1. e.domain = "storage" /\ g \in Seq(CandidatesOf("storage"))
  BY EntryIs DEF Domains
<1>2. \A c \in CandidatesOf("storage") : StorageBump(c) \in Int
  <2> TAKE c \in CandidatesOf("storage")
  <2>1. c.knob \in Int
    BY DEF CandidatesOf
  <2> QED
    BY <2>1 DEF StorageBump, Least, Greatest
<1>3. knobs \in [1 .. Len(g) -> Int]
  BY <1>1, <1>2
<1>4. Mutate(e) = MutateFirst(g, bumpable, knobs)
  BY <1>1 DEF Mutate, StorageMutate
<1> HIDE DEF bumpable, knobs
<1> QED
  BY <1>1, <1>3, <1>4, MutateFirstIs

LEMMA LogMutateIs ==
  ASSUME NEW e \in EntriesOf("log")
  PROVE  /\ Mutate(e) \in Seq(CandidatesOf("log"))
         /\ Len(Mutate(e)) = Len(e.genome)
         /\ OneKnob(e.genome, Mutate(e))
<1> DEFINE g == e.genome
           bumpable == {i \in DOMAIN g : LogBumpable(g[i])}
           knobs == [i \in DOMAIN g |-> LogBump(g[i])]
<1>1. e.domain = "log" /\ g \in Seq(CandidatesOf("log"))
  BY EntryIs DEF Domains
<1>2. \A c \in CandidatesOf("log") : LogBump(c) \in Int
  <2> TAKE c \in CandidatesOf("log")
  <2>1. c.knob \in Int
    BY DEF CandidatesOf
  <2> QED
    BY <2>1 DEF LogBump, Least, Greatest
<1>3. knobs \in [1 .. Len(g) -> Int]
  BY <1>1, <1>2
<1>4. Mutate(e) = MutateFirst(g, bumpable, knobs)
  BY <1>1 DEF Mutate, LogMutate
<1> HIDE DEF bumpable, knobs
<1> QED
  BY <1>1, <1>3, <1>4, MutateFirstIs

LEMMA MutateIs ==
  ASSUME NEW e \in AllEntries
  PROVE  /\ Mutate(e) \in Seq(CandidatesOf(e.domain))
         /\ Len(Mutate(e)) = Len(e.genome)
         /\ OneKnob(e.genome, Mutate(e))
<1>1. e.domain \in Domains /\ e \in EntriesOf(e.domain) /\ e.genome \in Seq(CandidatesOf(e.domain))
  BY GainsAre
<1>2. CASE e.domain = "compiler"
  BY <1>1, <1>2, CompilerMutateIs
<1>3. CASE e.domain = "sql"
  BY <1>1, <1>3, SQLMutateIs
<1>4. CASE e.domain = "iac"
  BY <1>1, <1>4, IaCMutateIs
<1>5. CASE e.domain = "security"
  BY <1>1, <1>5, SecurityMutateIs
<1>6. CASE e.domain = "ml"
  BY <1>1, <1>6, MLMutateIs
<1>7. CASE e.domain = "storage"
  BY <1>1, <1>7, StorageMutateIs
<1>8. CASE e.domain = "log"
  BY <1>1, <1>8, LogMutateIs
<1>9. CASE e.domain = "network"
  <2>1. Mutate(e) = e.genome
    BY <1>9 DEF Mutate, NetworkMutate
  <2> QED
    BY <1>1, <2>1 DEF OneKnob
<1> QED
  BY <1>1, <1>2, <1>3, <1>4, <1>5, <1>6, <1>7, <1>8, <1>9 DEF Domains

-----------------------------------------------------------------------------
(* A promotion.                                                            *)

(* The measure of one candidate.                                           *)
LEMMA MeasureOfOne ==
  ASSUME NEW e \in AllEntries, NEW c \in CandidatesOf(e.domain)
  PROVE  /\ Measure(e, <<c>>) = Fitness(<<c>>, Gains(e, c))
         /\ Measure(e, <<c>>).regression = (Gains(e, c) = {})
         /\ Measure(e, <<c>>).quality \in Gains(e, c) \cup {Zero}
         /\ Measure(e, <<c>>).quality \in Fractions
         /\ \A r \in Gains(e, c) \cup {Zero} : ~Less(Measure(e, <<c>>).quality, r)
<1> DEFINE g == <<c>>
<1>1. g \in Seq(CandidatesOf(e.domain)) /\ 1 .. Len(g) = {1} /\ g[1] = c
  OBVIOUS
<1> HIDE DEF g
<1>2. {Gains(e, g[i]) : i \in 1 .. Len(g)} = {Gains(e, c)}
  BY <1>1
<1>3. GainsOf(e, g) = Gains(e, c)
  BY <1>2 DEF GainsOf
<1> DEFINE f == Measure(e, g)
<1>4. /\ f = Fitness(g, GainsOf(e, g)) /\ f.regression = (GainsOf(e, g) = {})
      /\ f.quality \in GainsOf(e, g) \cup {Zero} /\ f.quality \in Fractions
      /\ \A r \in GainsOf(e, g) \cup {Zero} : ~Less(f.quality, r)
  BY <1>1, MeasureIs
<1>5. /\ f = Fitness(g, Gains(e, c)) /\ f.regression = (Gains(e, c) = {})
      /\ f.quality \in Gains(e, c) \cup {Zero} /\ f.quality \in Fractions
      /\ \A r \in Gains(e, c) \cup {Zero} : ~Less(f.quality, r)
  <2> HIDE DEF f
  <2> QED
    BY <1>3, <1>4
<1> QED
  BY <1>5 DEF g

LEMMA SameQuality ==
  ASSUME NEW g, NEW h, NEW R
  PROVE  Fitness(g, R).quality = Fitness(h, R).quality
BY DEF Fitness

(* A mutated genome that is fitter is so by the candidate with the new     *)
(* knob.                                                                   *)
PromotedBy(e, h, f, b, k) ==
  LET alone == Measure(e, <<h[k]>>)
  IN /\ h = [e.genome EXCEPT ![k].knob = h[k].knob]
     /\ h # e.genome
     /\ ~alone.regression /\ alone.quality = f.quality
     /\ b.regression \/ Less(b.quality, alone.quality)

LEMMA PromotionMeasured ==
  ASSUME NEW e \in AllEntries, limit \in Int,
         NEW h, h = Mutate(e),
         NEW f, f = Evaluate(e, h),
         NEW b, b = Evaluate(e, e.genome),
         FitterThan(f, b)
  PROVE  \E k \in 1 .. Len(Prefix(e.genome, limit)) : PromotedBy(e, h, f, b, k)
<1> DEFINE C == CandidatesOf(e.domain)
           g == e.genome
           P == Prefix(g, limit)
           Q == Prefix(h, limit)
           R == GainsOf(e, P)
           S == GainsOf(e, Q)
<1>1. /\ g \in Seq(C) /\ h \in Seq(C) /\ Len(h) = Len(g) /\ OneKnob(g, h)
  BY GainsAre, MutateIs
<1>2. /\ P \in Seq(C) /\ Q \in Seq(C) /\ Len(P) \in 0 .. Len(g) /\ Len(Q) = Len(P)
      /\ \A i \in 1 .. Len(P) : P[i] = g[i] /\ Q[i] = h[i]
  <2> HIDE DEF C, g
  <2>1. P \in Seq(C) /\ Len(P) \in 0 .. Len(g) /\ \A i \in 1 .. Len(P) : P[i] = g[i]
    BY <1>1, PrefixIs
  <2>2. Q \in Seq(C) /\ \A i \in 1 .. Len(Q) : Q[i] = h[i]
    BY <1>1, PrefixIs
  <2>3. Len(Q) = Len(P)
    BY <1>1, PrefixLength
  <2> QED
    BY <2>1, <2>2, <2>3
<1>3. f = Measure(e, Q) /\ b = Measure(e, P)
  BY DEF Evaluate
<1> HIDE DEF C, g, P, Q, R, S
<1>4. /\ S \subseteq Fractions /\ f = Fitness(Q, S) /\ f.cost = Len(P)
      /\ f.regression = (S = {})
      /\ f.quality \in S \cup {Zero} /\ f.quality \in Fractions
  <2>1. Q \in Seq(CandidatesOf(e.domain)) /\ Len(Q) = Len(P) /\ f = Measure(e, Q) /\ S = GainsOf(e, Q)
    BY <1>2, <1>3 DEF C, S
  <2> QED
    BY <2>1, MeasureIs
<1>5. /\ R \subseteq Fractions /\ b.cost = Len(P)
      /\ b.regression = (R = {}) /\ b.quality \in Fractions
      /\ \A r \in R \cup {Zero} : ~Less(b.quality, r)
  <2>1. P \in Seq(CandidatesOf(e.domain)) /\ b = Measure(e, P) /\ R = GainsOf(e, P)
    BY <1>2, <1>3 DEF C, R
  <2> QED
    BY <2>1, MeasureIs
<1>6. PICK n \in Nat : n = Len(P)
  BY <1>2
<1>7. ~f.regression /\ (b.regression \/ Less(b.quality, f.quality))
  <2>1. ~(f.cost < b.cost)
    BY <1>4, <1>5, <1>6
  <2> QED
    BY <2>1 DEF FitterThan
<1>8. S # R
  BY <1>4, <1>5, <1>7
<1>9. S = UNION {Gains(e, h[i]) : i \in 1 .. n} /\ R = UNION {Gains(e, g[i]) : i \in 1 .. n}
  BY <1>2, <1>6 DEF S, R, GainsOf
<1>10. h # g
  BY <1>8, <1>9
<1>11. PICK k \in 1 .. Len(g) : /\ h = [g EXCEPT ![k].knob = h[k].knob]
                                /\ \A i \in 1 .. Len(g) : i # k => h[i] = g[i]
  BY <1>1, <1>10 DEF OneKnob
<1>12. k \in 1 .. n
  <2> SUFFICES ASSUME k \notin 1 .. n PROVE FALSE
    OBVIOUS
  <2>1. \A i \in 1 .. n : h[i] = g[i]
    BY <1>2, <1>6, <1>11
  <2> QED
    BY <1>8, <1>9, <2>1
<1> DEFINE A == Gains(e, h[k])
<1>13. \A q \in S : q \in R \/ q \in A
  <2> TAKE q \in S
  <2>1. PICK i \in 1 .. n : q \in Gains(e, h[i])
    BY <1>9
  <2>2. i # k => h[i] = g[i]
    BY <1>2, <1>6, <1>11
  <2>3. i # k => q \in R
    BY <1>9, <2>1, <2>2
  <2> QED
    BY <2>1, <2>3
<1>14. A \subseteq S
  BY <1>9, <1>12
<1>15. h[k] \in C
  BY <1>1, <1>11
<1> DEFINE alone == Measure(e, <<h[k]>>)
<1>16. /\ alone = Fitness(<<h[k]>>, A)
       /\ alone.regression = (A = {})
       /\ alone.quality \in A \cup {Zero} /\ alone.quality \in Fractions
       /\ \A r \in A \cup {Zero} : ~Less(alone.quality, r)
  BY <1>15, MeasureOfOne DEF C
<1>17. AtMostOne(A)
  BY <1>15, GainsAre DEF C
<1> HIDE DEF A, alone
<1>18. ~alone.regression /\ alone.quality = f.quality
  <2>1. CASE b.regression
    <3>1. R = {}
      BY <1>5, <2>1
    <3>2. S = A
      BY <1>13, <1>14, <3>1
    <3>3. alone.quality = f.quality
      BY <1>4, <1>16, <3>2, SameQuality
    <3> QED
      BY <1>4, <1>7, <1>16, <3>2, <3>3
  <2>2. CASE Less(b.quality, f.quality)
    <3>1. f.quality # Zero /\ f.quality \notin R
      BY <1>5, <2>2
    <3>2. f.quality \in A
      BY <1>4, <1>13, <3>1
    <3>3. ASSUME alone.quality = Zero PROVE FALSE
      <4>1. ~Less(Zero, f.quality)
        BY <1>16, <3>2, <3>3
      <4>2. ~Less(b.quality, Zero)
        BY <1>5
      <4>3. ~Less(b.quality, f.quality)
        BY <1>4, <1>5, <4>1, <4>2, LessTransitive, ZeroFraction
      <4> QED
        BY <2>2, <4>3
    <3>4. alone.quality \in A
      BY <1>16, <3>3
    <3> QED
      BY <1>16, <1>17, <3>2, <3>4 DEF AtMostOne
  <2> QED
    BY <1>7, <2>1, <2>2
<1>19. b.regression \/ Less(b.quality, alone.quality)
  BY <1>7, <1>18
<1> QED
  BY <1>6, <1>10, <1>11, <1>12, <1>18, <1>19 DEF PromotedBy, P, g, alone
-----------------------------------------------------------------------------
(* The best promotion.                                                     *)

Signals == [quality : Fractions, cost : Nat, regression : BOOLEAN]

(* Higher quality, or no lower and cheaper: a strict order, and what is    *)
(* not outdone is transitive.                                              *)
Outdoes(f, g) ==
  \/ Less(g.quality, f.quality)
  \/ ~Less(f.quality, g.quality) /\ f.cost < g.cost

LEMMA OutdoesOrder ==
  ASSUME NEW f \in Signals, NEW g \in Signals, NEW h \in Signals
  PROVE  /\ ~Outdoes(f, f)
         /\ Outdoes(f, g) => ~Outdoes(g, f)
         /\ Outdoes(f, h) => Outdoes(f, g) \/ Outdoes(g, h)
<1>1. /\ f.quality \in Fractions /\ g.quality \in Fractions /\ h.quality \in Fractions
      /\ f.cost \in Nat /\ g.cost \in Nat /\ h.cost \in Nat
  BY DEF Signals
<1>2. ~Outdoes(f, f) /\ (Outdoes(f, g) => ~Outdoes(g, f))
  <2>1. ~Less(f.quality, f.quality) /\ ~(f.cost < f.cost)
    BY <1>1, LessOrder
  <2>2. /\ Less(g.quality, f.quality) => ~Less(f.quality, g.quality)
        /\ f.cost < g.cost => ~(g.cost < f.cost)
    BY <1>1, LessOrder
  <2> QED
    BY <1>1, <2>1, <2>2 DEF Outdoes, Less
<1>3. ASSUME Outdoes(f, h), ~Outdoes(f, g), ~Outdoes(g, h) PROVE FALSE
  <2>1. ~Less(g.quality, f.quality) /\ ~Less(h.quality, g.quality)
    BY <1>3 DEF Outdoes
  <2>2. ~Less(h.quality, f.quality)
    BY <1>1, <2>1, LessTransitive
  <2>3. ~Less(f.quality, h.quality) /\ f.cost < h.cost
    BY <1>3, <2>2 DEF Outdoes
  <2>4. ~Less(f.quality, g.quality)
    BY <1>1, <2>1, <2>3, LessTransitive
  <2>5. ~Less(g.quality, h.quality)
    BY <1>1, <2>1, <2>3, LessTransitive
  <2>6. ~(f.cost < g.cost) /\ ~(g.cost < h.cost)
    BY <1>3, <2>4, <2>5 DEF Outdoes
  <2> QED
    BY <1>1, <2>3, <2>6
<1> QED
  BY <1>2, <1>3

(* The best of the first n results, as BestPromoted goes through them.     *)
Takes(rs, i, best) ==
  /\ rs[i].promoted
  /\ \/ best = 0
     \/ Less(rs[best].fitness.quality, rs[i].fitness.quality)
     \/ /\ ~Less(rs[i].fitness.quality, rs[best].fitness.quality)
        /\ rs[i].fitness.cost < rs[best].fitness.cost
BestTable(rs, n, p) ==
  p = [i \in 0 .. n |-> IF i = 0 THEN 0 ELSE IF Takes(rs, i, p[i - 1]) THEN i ELSE p[i - 1]]

LEMMA TakesIs ==
  ASSUME NEW rs, NEW i, NEW best
  PROVE  Takes(rs, i, best)
           <=> rs[i].promoted /\ (best = 0 \/ Outdoes(rs[i].fitness, rs[best].fitness))
BY DEF Takes, Outdoes, Less

LEMMA BestTables ==
  ASSUME NEW rs, NEW k \in Nat
  PROVE  \E p \in [0 .. k -> 0 .. k] : BestTable(rs, k, p)
<1> DEFINE Bad == {n \in Nat : \A p \in [0 .. n -> 0 .. n] : ~BestTable(rs, n, p)}
<1> SUFFICES Bad = {}
  OBVIOUS
<1> SUFFICES ASSUME Bad # {} PROVE FALSE
  OBVIOUS
<1>1. Bad \in SUBSET Nat
  OBVIOUS
<1>2. PICK n \in Bad : \A m \in Bad : n <= m
  BY <1>1, SmallestNumber
<1>3. n \in Nat /\ \A p \in [0 .. n -> 0 .. n] : ~BestTable(rs, n, p)
  OBVIOUS
<1>4. CASE n = 0
  <2> DEFINE p == [i \in 0 .. 0 |-> 0]
  <2>1. p \in [0 .. n -> 0 .. n]
    BY <1>4
  <2>2. BestTable(rs, n, p)
    BY <1>4 DEF BestTable
  <2> QED
    BY <1>3, <2>1, <2>2
<1>5. CASE n # 0
  <2>1. n - 1 \in Nat /\ n - 1 \notin Bad
    <3> HIDE DEF Bad
    <3> QED
      BY <1>2, <1>3, <1>5
  <2>2. PICK q \in [0 .. n - 1 -> 0 .. n - 1] : BestTable(rs, n - 1, q)
    BY <2>1
  <2> DEFINE latest == IF Takes(rs, n, q[n - 1]) THEN n ELSE q[n - 1]
             p == [i \in 0 .. n |-> IF i = n THEN latest ELSE q[i]]
  <2>3. n - 1 \in 0 .. n - 1 /\ q[n - 1] \in 0 .. n /\ latest \in 0 .. n
    BY <1>3, <2>1, <2>2
  <2>4. p \in [0 .. n -> 0 .. n]
    <3> HIDE DEF latest
    <3>1. ASSUME NEW i \in 0 .. n PROVE p[i] \in 0 .. n
      <4>1. CASE i = n
        BY <2>3, <4>1
      <4>2. CASE i # n
        <5>1. i \in 0 .. n - 1
          BY <1>3, <4>2
        <5>2. q[i] \in 0 .. n - 1
          BY <2>2, <5>1
        <5> QED
          BY <1>3, <4>2, <5>2
      <4> QED
        BY <4>1, <4>2
    <3> QED
      BY <3>1
  <2>5. ASSUME NEW i \in 0 .. n
        PROVE  p[i] = IF i = 0 THEN 0 ELSE IF Takes(rs, i, p[i - 1]) THEN i ELSE p[i - 1]
    <3>1. CASE i = n
      BY <1>3, <1>5, <2>3, <3>1
    <3>2. CASE i # n
      <4>1. i \in 0 .. n - 1 /\ p[i] = q[i]
        BY <1>3, <3>2
      <4>2. q[i] = IF i = 0 THEN 0 ELSE IF Takes(rs, i, q[i - 1]) THEN i ELSE q[i - 1]
        BY <2>2, <4>1 DEF BestTable
      <4>3. i # 0 => p[i - 1] = q[i - 1]
        BY <1>3, <4>1
      <4> QED
        BY <4>1, <4>2, <4>3
    <3> QED
      BY <3>1, <3>2
  <2>6. BestTable(rs, n, p)
    BY <2>5 DEF BestTable
  <2> HIDE DEF p
  <2> QED
    BY <1>3, <2>4, <2>6
<1> QED
  BY <1>4, <1>5

IsBest(rs, n, best) ==
  LET promoted == {i \in 1 .. n : rs[i].promoted}
  IN IF promoted = {} THEN best = 0
     ELSE /\ best \in promoted
          /\ \A i \in promoted : /\ ~Outdoes(rs[i].fitness, rs[best].fitness)
                                 /\ i < best => Outdoes(rs[best].fitness, rs[i].fitness)

LEMMA BestStep ==
  ASSUME NEW rs, NEW n \in Nat \ {0}, \A i \in 1 .. n : rs[i].fitness \in Signals,
         NEW before, IsBest(rs, n - 1, before)
  PROVE  IsBest(rs, n, IF Takes(rs, n, before) THEN n ELSE before)
<1> DEFINE old == {i \in 1 .. n - 1 : rs[i].promoted}
           new == {i \in 1 .. n : rs[i].promoted}
<1>1. \A i : i \in new <=> i \in old \/ (i = n /\ rs[n].promoted)
  OBVIOUS
<1>2. \A i \in old : i \in 1 .. n /\ i < n /\ rs[i].fitness \in Signals
  OBVIOUS
<1>3. n \in 1 .. n /\ rs[n].fitness \in Signals
  OBVIOUS
<1>4. IF old = {} THEN before = 0
      ELSE /\ before \in old
           /\ \A i \in old : /\ ~Outdoes(rs[i].fitness, rs[before].fitness)
                             /\ i < before => Outdoes(rs[before].fitness, rs[i].fitness)
  BY DEF IsBest
<1> DEFINE best == IF Takes(rs, n, before) THEN n ELSE before
<1>5. IsBest(rs, n, best) <=>
        IF new = {} THEN best = 0
        ELSE /\ best \in new
             /\ \A i \in new : /\ ~Outdoes(rs[i].fitness, rs[best].fitness)
                               /\ i < best => Outdoes(rs[best].fitness, rs[i].fitness)
  BY DEF IsBest
<1> HIDE DEF old, new
<1>6. CASE ~rs[n].promoted
  <2>1. best = before
    BY <1>6, TakesIs
  <2>2. new = old
    BY <1>1, <1>6
  <2> QED
    BY <1>4, <1>5, <2>1, <2>2
<1>7. CASE rs[n].promoted /\ old = {}
  <2>1. best = n
    BY <1>4, <1>7, TakesIs
  <2>2. new = {n}
    BY <1>1, <1>7
  <2>3. ~Outdoes(rs[n].fitness, rs[n].fitness)
    BY <1>3, OutdoesOrder
  <2>4. ~(n < n)
    OBVIOUS
  <2> HIDE DEF best
  <2>5. new # {} /\ best \in new
    BY <2>1, <2>2
  <2>6. \A i \in new : /\ ~Outdoes(rs[i].fitness, rs[best].fitness)
                       /\ i < best => Outdoes(rs[best].fitness, rs[i].fitness)
    BY <2>1, <2>2, <2>3, <2>4
  <2> QED
    BY <1>5, <2>5, <2>6 DEF best
<1>8. CASE rs[n].promoted /\ old # {} /\ Takes(rs, n, before)
  <2>1. best = n
    BY <1>8
  <2>2. before \in old /\ before # 0 /\ rs[before].fitness \in Signals
    BY <1>2, <1>4, <1>8
  <2>3. Outdoes(rs[n].fitness, rs[before].fitness)
    BY <1>8, <2>2, TakesIs
  <2>4. ASSUME NEW i \in old
        PROVE  Outdoes(rs[n].fitness, rs[i].fitness) /\ ~Outdoes(rs[i].fitness, rs[n].fitness)
    <3>1. ~Outdoes(rs[i].fitness, rs[before].fitness) /\ rs[i].fitness \in Signals
      BY <1>2, <1>4, <1>8
    <3>2. Outdoes(rs[n].fitness, rs[i].fitness)
      BY <1>3, <2>2, <2>3, <3>1, OutdoesOrder
    <3> QED
      BY <1>3, <3>1, <3>2, OutdoesOrder
  <2>5. ~Outdoes(rs[n].fitness, rs[n].fitness)
    BY <1>3, OutdoesOrder
  <2>6. n \in new /\ ~(n < n)
    BY <1>1, <1>8
  <2> HIDE DEF best
  <2>7. \A i \in new : /\ ~Outdoes(rs[i].fitness, rs[best].fitness)
                       /\ i < best => Outdoes(rs[best].fitness, rs[i].fitness)
    BY <1>1, <2>1, <2>4, <2>5, <2>6
  <2>8. new # {} /\ best \in new
    BY <2>1, <2>6
  <2> QED
    BY <1>5, <2>7, <2>8 DEF best
<1>9. CASE rs[n].promoted /\ old # {} /\ ~Takes(rs, n, before)
  <2>1. best = before
    BY <1>9
  <2>2. before \in old /\ before # 0 /\ before < n
    BY <1>2, <1>4, <1>9
  <2>3. ~Outdoes(rs[n].fitness, rs[before].fitness)
    BY <1>9, <2>2, TakesIs
  <2>4. before \in new /\ ~(n < before)
    BY <1>1, <1>2, <2>2
  <2> HIDE DEF best
  <2> QED
    BY <1>1, <1>4, <1>5, <1>9, <2>1, <2>3, <2>4
<1> QED
  BY <1>6, <1>7, <1>8, <1>9

LEMMA BestOfTable ==
  ASSUME NEW rs, NEW k \in Nat, \A i \in 1 .. k : rs[i].fitness \in Signals,
         NEW p, BestTable(rs, k, p)
  PROVE  IsBest(rs, k, p[k])
<1>1. p = [i \in 0 .. k |-> IF i = 0 THEN 0 ELSE IF Takes(rs, i, p[i - 1]) THEN i ELSE p[i - 1]]
  BY DEF BestTable
<1> DEFINE Bad == {n \in 0 .. k : ~IsBest(rs, n, p[n])}
<1>2. ASSUME Bad # {} PROVE FALSE
  <2>1. Bad \in SUBSET Nat
    OBVIOUS
  <2>2. PICK n \in Bad : \A m \in Bad : n <= m
    <3> HIDE DEF Bad
    <3> QED
      BY <1>2, <2>1, SmallestNumber
  <2>3. n \in 0 .. k /\ ~IsBest(rs, n, p[n])
    OBVIOUS
  <2>4. p[n] = IF n = 0 THEN 0 ELSE IF Takes(rs, n, p[n - 1]) THEN n ELSE p[n - 1]
    BY <1>1, <2>3
  <2>5. CASE n = 0
    <3>1. IsBest(rs, 0, 0)
      BY DEF IsBest
    <3> QED
      BY <2>3, <2>4, <2>5, <3>1
  <2>6. CASE n # 0
    <3>1. n - 1 \in 0 .. k /\ n - 1 \notin Bad
      <4> HIDE DEF Bad
      <4> QED
        BY <2>2, <2>3, <2>6
    <3>2. IsBest(rs, n - 1, p[n - 1]) /\ n \in Nat \ {0} /\ \A i \in 1 .. n : rs[i].fitness \in Signals
      BY <2>3, <2>6, <3>1
    <3>3. IsBest(rs, n, IF Takes(rs, n, p[n - 1]) THEN n ELSE p[n - 1])
      BY <3>2, BestStep
    <3> QED
      BY <2>3, <2>4, <2>6, <3>3
  <2> QED
    BY <2>5, <2>6
<1> QED
  BY <1>2

LEMMA BestPromotedIs ==
  ASSUME NEW n \in Nat, Len(results) = n,
         \A i \in 1 .. n : results[i].fitness \in Signals
  PROVE  IsBest(results, n, BestPromoted)
<1> DEFINE p == CHOOSE p : BestTable(results, Len(results), p)
<1>1. \E q : BestTable(results, Len(results), q)
  BY BestTables
<1>2. BestTable(results, Len(results), p)
  BY <1>1
<1>3. BestPromoted = p[Len(results)]
  BY DEF BestPromoted, BestTable, Takes
<1> HIDE DEF p
<1>4. BestTable(results, n, p) /\ BestPromoted = p[n]
  BY <1>2, <1>3
<1> QED
  BY <1>4, BestOfTable
-----------------------------------------------------------------------------
(* One candidate of an optimization loop that still holds the baseline.    *)

Forgets(e) == e.domain = "compiler" /\ e.base.metrics.misses > 0
PrimaryOf(d, m) ==
  CASE d = "compiler" -> m.cycles
    [] d = "sql" -> m.examined
    [] d = "iac" -> m.resources

(* It asks for a replan, which the default policy never does, or improves  *)
(* nothing and goes on, or completes with the one gain of the candidate.   *)
Outcome(e, c, replans, o) ==
  \/ /\ o.status = "replan_required" /\ o.final = e.base
     /\ replans # DefaultReplans(e.domain)
  \/ o.status = "running" /\ o.final = e.base /\ Gains(e, c) = {}
  \/ /\ o.status = "completed"
     /\ \/ Forgets(e)
        \/ Gains(e, c) = {Ratio(PrimaryOf(e.domain, e.base.metrics), PrimaryOf(e.domain, o.final.metrics))}

LEMMA BelowThree ==
  ASSUME NEW a \in Int, NEW b \in Int, NEW c \in Int, NEW x \in Int, NEW y \in Int, NEW z \in Int
  PROVE  Below(<<a, b, c>>, <<x, y, z>>)
           <=> a < x \/ (a = x /\ b < y) \/ (a = x /\ b = y /\ c < z)
<1> DEFINE r == <<a, b, c>>
           s == <<x, y, z>>
<1>1. /\ DOMAIN r = {1, 2, 3} /\ r[1] = a /\ r[2] = b /\ r[3] = c
      /\ s[1] = x /\ s[2] = y /\ s[3] = z
  OBVIOUS
<1>2. 1 .. (1 - 1) = {} /\ 1 .. (2 - 1) = {1} /\ 1 .. (3 - 1) = {1, 2}
  OBVIOUS
<1> HIDE DEF r, s
<1>3. Below(r, s) <=> \/ r[1] < s[1]
                      \/ r[2] < s[2] /\ r[1] = s[1]
                      \/ r[3] < s[3] /\ r[1] = s[1] /\ r[2] = s[2]
  BY <1>1, <1>2 DEF Below
<1> QED
  BY <1>1, <1>3 DEF r, s

LEMMA CompilerTried ==
  ASSUME NEW e \in EntriesOf("compiler"), NEW c \in CandidatesOf("compiler"),
         NEW replans
  PROVE  Outcome(e, c, replans, CompilerCandidate(c, e.base, replans))
<1> DEFINE new == CompilerApply(c, e.base.metrics)
           told == ToldBase(e)
           better == CompilerImproving(<<c>>, e.base)
           gains == CompilerImproving(<<c>>, told)
           o == CompilerCandidate(c, e.base, replans)
           Routed(gap) == IF gap = NoGap THEN "missing_transform" ELSE gap
<1>1. /\ e.domain = "compiler" /\ e.base.metrics \in CompilerMetrics /\ c \in CandidatesOf("compiler")
      /\ told = [e.base EXCEPT !.metrics.misses = 0] /\ e.base \in BasesOf("compiler")
  BY EntryIs, MetricsAre DEF Domains, BasesOf, ToldBase
<1>2. new \subseteq CompilerMetrics /\ AtMostOne(new)
  BY <1>1, CompilerYields
<1>3. told.metrics = [e.base.metrics EXCEPT !.misses = 0] /\ told.valid = e.base.valid
      /\ told.metrics \in CompilerMetrics
  BY <1>1 DEF BasesOf, CompilerMetrics
<1>4. CompilerApply(c, told.metrics) = new
  <2>1. told.metrics.cycles = e.base.metrics.cycles /\ told.metrics.spills = e.base.metrics.spills
    BY <1>1, <1>3 DEF CompilerMetrics
  <2>2. [told.metrics EXCEPT !.misses = 0] = [e.base.metrics EXCEPT !.misses = 0]
    BY <1>1, <1>3 DEF CompilerMetrics
  <2> QED
    BY <2>1, <2>2 DEF CompilerApply
<1>5. /\ better = {m \in new : Beats(CompilerRank(m), e.base, CompilerRank(e.base.metrics))}
      /\ gains = {m \in new : Beats(CompilerRank(m), told, CompilerRank(told.metrics))}
  BY <1>4 DEF CompilerImproving
<1>6. \A m \in new : m.misses = 0
  BY <1>1 DEF CompilerApply, CompilerMetrics
<1>7. gains \subseteq better
  <2> SUFFICES ASSUME NEW m \in gains PROVE m \in better
    OBVIOUS
  <2>1. m \in new /\ m.misses = 0 /\ m \in CompilerMetrics
    BY <1>2, <1>5, <1>6
  <2>2. /\ m.cycles \in Int /\ m.spills \in Int /\ m.misses \in Int
        /\ e.base.metrics.cycles \in Int /\ e.base.metrics.spills \in Int /\ e.base.metrics.misses \in Nat
        /\ told.metrics.cycles = e.base.metrics.cycles /\ told.metrics.spills = e.base.metrics.spills
        /\ told.metrics.misses = 0
    BY <1>1, <1>3, <2>1 DEF CompilerMetrics
  <2>3. Below(CompilerRank(m), CompilerRank(told.metrics))
          => Below(CompilerRank(m), CompilerRank(e.base.metrics))
    <3>1. 0 \in Int /\ ~(0 < 0) /\ e.base.metrics.misses \in Int
      BY <2>2
    <3>2. Below(<<m.cycles, m.spills, m.misses>>, <<told.metrics.cycles, told.metrics.spills, told.metrics.misses>>)
            => m.cycles < e.base.metrics.cycles
               \/ (m.cycles = e.base.metrics.cycles /\ m.spills < e.base.metrics.spills)
      BY <2>1, <2>2, <3>1, BelowThree
    <3>3. m.cycles < e.base.metrics.cycles
               \/ (m.cycles = e.base.metrics.cycles /\ m.spills < e.base.metrics.spills)
          => Below(<<m.cycles, m.spills, m.misses>>,
                   <<e.base.metrics.cycles, e.base.metrics.spills, e.base.metrics.misses>>)
      <4>1. PICK a \in Int, b \in Int, k \in Int, x \in Int, y \in Int, z \in Int :
              /\ a = m.cycles /\ b = m.spills /\ k = m.misses /\ x = e.base.metrics.cycles
              /\ y = e.base.metrics.spills /\ z = e.base.metrics.misses
        BY <2>2, <3>1
      <4>2. a < x \/ (a = x /\ b < y) => Below(<<a, b, k>>, <<x, y, z>>)
        BY BelowThree
      <4> QED
        BY <4>1, <4>2
    <3> QED
      BY <3>2, <3>3 DEF CompilerRank
  <2> QED
    BY <1>3, <1>5, <2>1, <2>3 DEF Beats
<1>8. Gains(e, c) = {CompilerReduction(e.base.metrics, m) : m \in gains}
  BY <1>1 DEF Gains
<1>9. o = IF \E m \in new : Routed(ClassifyGap(e.base.metrics, m)) \in replans
          THEN Replan(e.base)
          ELSE IF better # {} THEN Accept(CHOOSE m \in new : TRUE) ELSE Continue(e.base)
  BY DEF CompilerCandidate
<1> HIDE DEF new, told, better, gains, o
<1>10. CASE \E m \in new : Routed(ClassifyGap(e.base.metrics, m)) \in replans
  <2>1. o = Replan(e.base)
    BY <1>9, <1>10
  <2>2. replans # {}
    BY <1>10
  <2>3. o.status = "replan_required" /\ o.final = e.base
    BY <2>1 DEF Replan
  <2>4. replans # DefaultReplans(e.domain)
    BY <1>1, <2>2 DEF DefaultReplans
  <2> QED
    BY <2>3, <2>4 DEF Outcome, o
<1>11. CASE better # {} /\ ~\E m \in new : Routed(ClassifyGap(e.base.metrics, m)) \in replans
  <2> DEFINE m0 == CHOOSE m \in new : TRUE
  <2>1. o = Accept(m0)
    BY <1>9, <1>11
  <2>2. new # {}
    BY <1>5, <1>11
  <2>3. m0 \in new
    BY <2>2
  <2> HIDE DEF m0
  <2>4. o.status = "completed" /\ o.final.metrics = m0
    BY <2>1 DEF Accept
  <2>5. ASSUME ~Forgets(e)
        PROVE  Gains(e, c) = {Ratio(PrimaryOf(e.domain, e.base.metrics), PrimaryOf(e.domain, o.final.metrics))}
    <3>1. e.base.metrics.misses = 0
      BY <1>1, <2>5 DEF Forgets, CompilerMetrics
    <3>2. told = e.base
      BY <1>1, <3>1 DEF BasesOf, CompilerMetrics
    <3>3. gains = better
      BY <1>5, <3>2
    <3>4. gains = {m0}
      BY <1>2, <1>5, <1>11, <2>3, <3>3 DEF AtMostOne
    <3>5. Gains(e, c) = {CompilerReduction(e.base.metrics, m0)}
      BY <1>8, <3>4
    <3> QED
      BY <1>1, <2>4, <3>5 DEF PrimaryOf, CompilerReduction
  <2> QED
    BY <2>4, <2>5 DEF Outcome, o
<1>12. CASE better = {} /\ ~\E m \in new : Routed(ClassifyGap(e.base.metrics, m)) \in replans
  <2>1. o = Continue(e.base)
    BY <1>9, <1>12
  <2>2. gains = {}
    BY <1>7, <1>12
  <2>3. Gains(e, c) = {}
    BY <1>8, <2>2
  <2> QED
    BY <2>1, <2>3 DEF Outcome, Continue, o
<1> QED
  BY <1>10, <1>11, <1>12

(* A plan loop answers the gap between the baseline and itself before it   *)
(* asks its tool.                                                          *)
LEMMA PlanTried ==
  ASSUME NEW e \in AllEntries, NEW c, NEW replans, NEW gap, NEW better,
         gap # NoGap, gap \notin DefaultReplans(e.domain),
         Gains(e, c) = {Ratio(PrimaryOf(e.domain, e.base.metrics), PrimaryOf(e.domain, m)) : m \in better},
         AtMostOne(better)
  PROVE  Outcome(e, c, replans, PlanCandidate(gap, better, e.base, replans))
<1> DEFINE o == PlanCandidate(gap, better, e.base, replans)
<1>1. o = IF gap \in replans THEN Replan(e.base)
          ELSE IF better # {} THEN Accept(CHOOSE m \in better : TRUE) ELSE Continue(e.base)
  BY DEF PlanCandidate
<1> HIDE DEF o
<1>2. CASE gap \in replans
  BY <1>1, <1>2 DEF Replan, Outcome, o
<1>3. CASE gap \notin replans /\ better = {}
  BY <1>1, <1>3 DEF Continue, Outcome, o
<1>4. CASE gap \notin replans /\ better # {}
  <2> DEFINE m0 == CHOOSE m \in better : TRUE
  <2>1. m0 \in better /\ o = Accept(m0)
    BY <1>1, <1>4
  <2> HIDE DEF m0
  <2>2. o.status = "completed" /\ o.final.metrics = m0
    BY <2>1 DEF Accept
  <2>3. better = {m0}
    BY <2>1 DEF AtMostOne
  <2>4. Gains(e, c) = {Ratio(PrimaryOf(e.domain, e.base.metrics), PrimaryOf(e.domain, m0))}
    BY <2>3
  <2> QED
    BY <2>2, <2>4 DEF Outcome, o
<1> QED
  BY <1>2, <1>3, <1>4

LEMMA SQLTried ==
  ASSUME NEW e \in EntriesOf("sql"), NEW c \in CandidatesOf("sql"), NEW replans
  PROVE  Outcome(e, c, replans, SQLCandidate(c, e.base, e.base, replans))
<1> DEFINE gap == ClassifySQLGap(e.base.metrics, e.base.metrics, e.base.valid)
           better == SQLImproving(<<c>>, e.base)
<1>1. /\ e.domain = "sql" /\ e.base.metrics \in SQLMetrics /\ c \in CandidatesOf("sql")
      /\ ToldBase(e) = e.base /\ e.base.valid \in BOOLEAN /\ e \in AllEntries
  BY EntryIs, MetricsAre DEF Domains, BasesOf, ToldBase, AllEntries
<1>2. gap = "missing_index"
  <2>1. /\ ~(e.base.metrics.examined < e.base.metrics.examined)
        /\ ~(e.base.metrics.examined > e.base.metrics.examined)
        /\ ~(e.base.metrics.time < e.base.metrics.time)
    BY <1>1 DEF SQLMetrics
  <2> QED
    BY <1>1, <2>1 DEF ClassifySQLGap
<1>3. AtMostOne(better)
  <2>1. AtMostOne(SQLApply(c, e.base.metrics))
    BY <1>1, SQLYields
  <2>2. better \subseteq SQLApply(c, e.base.metrics)
    BY DEF SQLImproving
  <2> QED
    BY <2>1, <2>2 DEF AtMostOne
<1>4. Gains(e, c) = {SQLReduction(e.base.metrics, m) : m \in better}
  BY <1>1 DEF Gains
<1>5. \A m : SQLReduction(e.base.metrics, m)
               = Ratio(PrimaryOf(e.domain, e.base.metrics), PrimaryOf(e.domain, m))
  BY <1>1 DEF PrimaryOf, SQLReduction
<1>8. Gains(e, c) = {Ratio(PrimaryOf(e.domain, e.base.metrics), PrimaryOf(e.domain, m)) : m \in better}
  <2> HIDE DEF better
  <2> QED
    BY <1>4, <1>5
<1>6. gap # NoGap /\ gap \notin DefaultReplans(e.domain)
  BY <1>1, <1>2 DEF NoGap, DefaultReplans
<1>7. SQLCandidate(c, e.base, e.base, replans) = PlanCandidate(gap, better, e.base, replans)
  BY DEF SQLCandidate
<1> HIDE DEF gap, better
<1> QED
  BY <1>1, <1>3, <1>8, <1>6, <1>7, PlanTried

LEMMA IaCTried ==
  ASSUME NEW e \in EntriesOf("iac"), NEW c \in CandidatesOf("iac"), NEW replans
  PROVE  Outcome(e, c, replans, IaCCandidate(c, e.base, e.base, replans))
<1> DEFINE gap == ClassifyIaCGap(e.base.metrics, e.base.metrics, e.base.valid)
           better == IaCImproving(<<c>>, e.base)
<1>1. /\ e.domain = "iac" /\ e.base.metrics \in IaCMetrics /\ c \in CandidatesOf("iac")
      /\ ToldBase(e) = e.base /\ e.base.valid \in BOOLEAN /\ e \in AllEntries
  BY EntryIs, MetricsAre DEF Domains, BasesOf, ToldBase, AllEntries
<1>2. gap = "unused_variable"
  <2>1. /\ ~(e.base.metrics.resources < e.base.metrics.resources)
        /\ ~(e.base.metrics.resources > e.base.metrics.resources)
        /\ ~(e.base.metrics.drift > e.base.metrics.drift)
    BY <1>1 DEF IaCMetrics
  <2> QED
    BY <1>1, <2>1 DEF ClassifyIaCGap
<1>3. AtMostOne(better)
  <2>1. AtMostOne(IaCApply(c, e.base.metrics))
    BY <1>1, IaCYields
  <2>2. better \subseteq IaCApply(c, e.base.metrics)
    BY DEF IaCImproving
  <2> QED
    BY <2>1, <2>2 DEF AtMostOne
<1>4. Gains(e, c) = {IaCReduction(e.base.metrics, m) : m \in better}
  BY <1>1 DEF Gains
<1>5. \A m : IaCReduction(e.base.metrics, m)
               = Ratio(PrimaryOf(e.domain, e.base.metrics), PrimaryOf(e.domain, m))
  BY <1>1 DEF PrimaryOf, IaCReduction
<1>8. Gains(e, c) = {Ratio(PrimaryOf(e.domain, e.base.metrics), PrimaryOf(e.domain, m)) : m \in better}
  <2> HIDE DEF better
  <2> QED
    BY <1>4, <1>5
<1>6. gap # NoGap /\ gap \notin DefaultReplans(e.domain)
  BY <1>1, <1>2 DEF NoGap, DefaultReplans
<1>7. IaCCandidate(c, e.base, e.base, replans) = PlanCandidate(gap, better, e.base, replans)
  BY DEF IaCCandidate
<1> HIDE DEF gap, better
<1> QED
  BY <1>1, <1>3, <1>8, <1>6, <1>7, PlanTried

LEMMA TriedIs ==
  ASSUME NEW e \in AllEntries, e.domain \in LoopDomains, NEW c \in CandidatesOf(e.domain),
         loop.final = e.base
  PROVE  Outcome(e, c, loop.replans, Tried(c, e))
<1>1. e \in EntriesOf(e.domain)
  BY GainsAre
<1>2. CASE e.domain = "compiler"
  BY <1>1, <1>2, CompilerTried DEF Tried
<1>3. CASE e.domain = "sql"
  BY <1>1, <1>3, SQLTried DEF Tried
<1>4. CASE e.domain = "iac"
  BY <1>1, <1>4, IaCTried DEF Tried
<1> QED
  BY <1>2, <1>3, <1>4 DEF LoopDomains

-----------------------------------------------------------------------------
(* The optimization loops agree with the evaluation.                       *)

(* A session: what it works on, and the ends of a loop.                    *)
SessionInv ==
  /\ entries \in Seq(AllEntries) /\ limit \in Int /\ iteration \in Nat
  /\ stage \in {"start", "loop", "evolve", "picked", "done"}
  /\ stage \in {"start", "evolve", "picked"} => loop = NoLoop

(* A loop at work holds its baseline, and no candidate so far gains.       *)
WorkingLoop ==
  stage = "loop" =>
    /\ entries # << >> /\ entries[1].domain \in LoopDomains
    /\ loop = [status |-> "running", final |-> entries[1].base, accepted |-> 0,
               tried |-> loop.tried, iterations |-> loop.iterations,
               replans |-> loop.replans, tool |-> TRUE]
    /\ loop.tried \in 0 .. Len(entries[1].genome)
    /\ \A i \in 1 .. loop.tried : Gains(entries[1], entries[1].genome[i]) = {}

LoopInv == SessionInv /\ WorkingLoop /\ LoopAgreesWithFitness

LEMMA NoGains ==
  ASSUME NEW e \in AllEntries, NEW n \in 0 .. Len(e.genome),
         \A i \in 1 .. n : Gains(e, e.genome[i]) = {}
  PROVE  /\ Measure(e, SubSeq(e.genome, 1, n)).regression
         /\ \A i \in 1 .. n : Measure(e, <<e.genome[i]>>).regression
<1>1. e.genome \in Seq(CandidatesOf(e.domain))
  BY GainsAre
<1> DEFINE g == SubSeq(e.genome, 1, n)
<1>2. /\ g \in Seq(CandidatesOf(e.domain)) /\ Len(g) = n
      /\ \A i \in 1 .. n : g[i] = e.genome[i]
  BY <1>1
<1>3. \A i \in 1 .. n : e.genome[i] \in CandidatesOf(e.domain)
  BY <1>1
<1> HIDE DEF g
<1>4. GainsOf(e, g) = {}
  BY <1>2 DEF GainsOf
<1>5. Measure(e, g).regression
  BY <1>2, <1>4, MeasureIs
<1>6. \A i \in 1 .. n : Measure(e, <<e.genome[i]>>).regression
  BY <1>3, MeasureOfOne
<1> QED
  BY <1>5, <1>6 DEF g

(* The one gain of a candidate is what its measure reports, if it is one.  *)
LEMMA OneGain ==
  ASSUME NEW e \in AllEntries, NEW c \in CandidatesOf(e.domain), NEW gain, Gains(e, c) = {gain}
  PROVE  /\ ~Measure(e, <<c>>).regression
         /\ \/ Measure(e, <<c>>).quality = gain
            \/ Less(gain, Zero)
            \/ gain[1] = 0
<1> DEFINE f == Measure(e, <<c>>)
<1>1. /\ f.regression = (Gains(e, c) = {}) /\ f.quality \in {gain, Zero} /\ ~Less(f.quality, gain)
  BY MeasureOfOne
<1>2. gain \in Fractions
  BY GainsAre
<1>3. PICK p \in Int, q \in Nat \ {0} : gain = <<p, q>>
  BY <1>2 DEF Fractions
<1>4. Less(Zero, gain) <=> 0 < p
  BY <1>3 DEF Less, Zero
<1>5. Less(gain, Zero) <=> p < 0
  BY <1>3 DEF Less, Zero
<1> HIDE DEF f
<1>6. ~f.regression
  BY <1>1
<1>7. f.quality = gain \/ Less(gain, Zero) \/ gain[1] = 0
  BY <1>1, <1>3, <1>4, <1>5
<1> QED
  BY <1>6, <1>7 DEF f

LEMMA GenomesAre ==
  ASSUME NEW d \in Domains, NEW n \in SUBSET Nat, NEW legal \in SUBSET BOOLEAN
  PROVE  Genomes(d, n, legal) \subseteq Seq(CandidatesOf(d))
<1> DEFINE S == {[kind |-> c.kind, knob |-> c.knob, legal |-> l] : c \in Candidates[d], l \in legal}
<1>1. S \subseteq CandidatesOf(d)
  BY EvolutionAssumption DEF CandidatesOf
<1>2. ASSUME NEW k \in n, NEW g \in [1 .. k -> S]
      PROVE  g \in Seq(CandidatesOf(d))
  <2> HIDE DEF S
  <2>1. k \in Nat /\ g \in [1 .. k -> CandidatesOf(d)]
    BY <1>1, <1>2
  <2> QED
    BY <2>1
<1>3. Genomes(d, n, legal) = UNION {[1 .. k -> S] : k \in n}
  BY DEF Genomes
<1> HIDE DEF S
<1> QED
  BY <1>2, <1>3

LEMMA EntriesAre ==
  ASSUME NEW ds \in SUBSET Domains, NEW n \in SUBSET Nat,
         NEW legal \in SUBSET BOOLEAN, NEW valid \in SUBSET BOOLEAN
  PROVE  Entries(ds, n, legal, valid) \subseteq AllEntries
<1> SUFFICES ASSUME NEW e \in Entries(ds, n, legal, valid)
             PROVE  e \in AllEntries
  OBVIOUS
<1>1. PICK d \in ds : e \in [domain : {d}, base : [metrics : Baselines[d], valid : valid],
                             genome : Genomes(d, n, legal)]
  BY DEF Entries
<1>2. Genomes(d, n, legal) \subseteq Seq(CandidatesOf(d))
  BY GenomesAre
<1>3. [metrics : Baselines[d], valid : valid] \subseteq BasesOf(d)
  BY EvolutionAssumption DEF BasesOf
<1>4. e \in EntriesOf(d)
  BY <1>1, <1>2, <1>3 DEF EntriesOf
<1> QED
  BY <1>4 DEF AllEntries

LEMMA MeasureSignal ==
  ASSUME NEW e \in AllEntries, NEW g \in Seq(CandidatesOf(e.domain))
  PROVE  Measure(e, g) \in Signals
<1> DEFINE R == GainsOf(e, g)
<1>1. Measure(e, g) = Fitness(g, R) /\ Measure(e, g).quality \in Fractions /\ Len(g) \in Nat
  BY MeasureIs
<1> HIDE DEF R
<1> QED
  BY <1>1 DEF Fitness, Signals

-----------------------------------------------------------------------------
(* What a session reports.                                                 *)

EvaluateAt(e, genome, n) == Measure(e, Prefix(genome, n))

LEMMA EvaluateSignal ==
  ASSUME NEW e \in AllEntries, NEW g \in Seq(CandidatesOf(e.domain)), NEW n \in Int
  PROVE  EvaluateAt(e, g, n) \in Signals
<1>1. Prefix(g, n) \in Seq(CandidatesOf(e.domain))
  BY PrefixIs
<1> QED
  BY <1>1, MeasureSignal DEF EvaluateAt

Reports ==
  [promoted : BOOLEAN, genome : UNION {Seq(CandidatesOf(d)) : d \in Domains},
   fitness : Signals, iterations : Nat]

(* A report on entry e, of which n candidates are evaluated: a promotion   *)
(* is the fitter mutation of the first iteration.                          *)
ReportOf(e, n, r) ==
  /\ r.genome \in Seq(CandidatesOf(e.domain))
  /\ IF r.promoted
     THEN /\ r.iterations = 1
          /\ r.genome = Mutate(e)
          /\ r.fitness = EvaluateAt(e, r.genome, n)
          /\ FitterThan(r.fitness, EvaluateAt(e, e.genome, n))
     ELSE r.genome = e.genome

(* A mutation that failed once fails again.                                *)
NotFitter(e, n) == ~FitterThan(EvaluateAt(e, Mutate(e), n), EvaluateAt(e, e.genome, n))

ReportsInv ==
  /\ results \in Seq(Reports)
  /\ stage \in {"start", "loop"} => results = << >> /\ iteration = 0
  /\ Len(results) <= Len(entries)
  /\ \A i \in 1 .. Len(results) : ReportOf(entries[i], limit, results[i])
  /\ stage = "evolve" /\ iteration > 0 =>
       Len(results) < Len(entries) /\ NotFitter(entries[Len(results) + 1], limit)
  /\ stage = "picked" => /\ Len(results) = Len(entries) /\ iteration = 0
                         /\ IsBest(results, Len(results), winner)

EvolutionIInv == LoopInv /\ ReportsInv

LEMMA EvolutionStarts ==
  ASSUME EvolutionInit
  PROVE  EvolutionIInv
<1>1. entries \in Seq(AllEntries)
  <2>1. Entries(Domains, 0 .. MaxCandidates, BOOLEAN, BOOLEAN) \subseteq AllEntries
    BY EvolutionAssumption, EntriesAre
  <2>2. Entries(PairDomains, {1}, {TRUE}, {TRUE}) \subseteq AllEntries
    <3>1. PairDomains \in SUBSET Domains /\ {1} \in SUBSET Nat /\ {TRUE} \in SUBSET BOOLEAN
      BY EvolutionAssumption
    <3> QED
      BY <3>1, EntriesAre
  <2>3. CASE \E e \in Entries(Domains, 0 .. MaxCandidates, BOOLEAN, BOOLEAN) : entries = <<e>>
    BY <2>1, <2>3
  <2>4. CASE entries \in [1 .. 2 -> Entries(PairDomains, {1}, {TRUE}, {TRUE})]
    <3>1. entries \in [1 .. 2 -> AllEntries]
      BY <2>2, <2>4
    <3>2. \A n \in Nat : \A s \in [1 .. n -> AllEntries] : s \in Seq(AllEntries)
      OBVIOUS
    <3> QED
      BY <3>1, <3>2
  <2> QED
    BY <2>3, <2>4 DEF EvolutionInit
<1>2. /\ limit \in Int /\ stage = "start" /\ loop = NoLoop /\ iteration = 0 /\ results = << >>
  BY EvolutionAssumption DEF EvolutionInit
<1>3. LoopInv
  BY <1>1, <1>2 DEF LoopInv, SessionInv, WorkingLoop, LoopAgreesWithFitness
<1>4. ReportsInv
  <2>1. << >> \in Seq(Reports) /\ Len(<< >>) = 0 /\ Len(entries) \in Nat
    BY <1>1
  <2> QED
    BY <1>2, <2>1 DEF ReportsInv
<1> QED
  BY <1>3, <1>4 DEF EvolutionIInv

(* LoopAgreesWithFitness of an entry and the locals of its loop.           *)
Agrees(e, l) ==
  LET tried == SubSeq(e.genome, 1, l.tried)
      gain == Ratio(PrimaryOf(e.domain, e.base.metrics), PrimaryOf(e.domain, l.final.metrics))
  IN IF l.status = "completed"
     THEN /\ l.accepted = 1
          /\ \A i \in 1 .. l.tried - 1 : Measure(e, <<e.genome[i]>>).regression
          /\ \/ Forgets(e)
             \/ LET measured == Measure(e, <<e.genome[l.tried]>>)
                IN ~measured.regression /\ (measured.quality = gain \/ Less(gain, Zero) \/ gain[1] = 0)
     ELSE /\ l.accepted = 0 /\ l.final = e.base
          /\ l.tool /\ l.status = "no_improvement" => Measure(e, tried).regression
          /\ l.status = "replan_required" => l.replans # DefaultReplans(e.domain)

LEMMA AgreesIs ==
  LoopAgreesWithFitness <=> (stage = "done" /\ loop # NoLoop => Agrees(entries[1], loop))
BY DEF LoopAgreesWithFitness, Agrees, Forgets, PrimaryOf

LEMMA LoopSteps ==
  ASSUME LoopInv, ReportsInv, EvolutionNext
  PROVE  LoopInv'
<1>1. /\ entries \in Seq(AllEntries) /\ limit \in Int /\ iteration \in Nat
      /\ stage \in {"start", "loop", "evolve", "picked", "done"}
      /\ stage \in {"start", "evolve", "picked"} => loop = NoLoop
  BY DEF LoopInv, SessionInv
<1>2. ASSUME UNCHANGED <<entries, limit, loop>>, iteration' \in Nat,
             stage \in {"start", "evolve", "picked"}, stage' \in {"evolve", "picked", "done"}
      PROVE  LoopInv'
  <2>1. loop' = NoLoop
    BY <1>1, <1>2
  <2> QED
    BY <1>1, <1>2, <2>1 DEF LoopInv, SessionInv, WorkingLoop, LoopAgreesWithFitness
<1>3. CASE Optimize
  <2>1. entries[1] \in AllEntries /\ entries # << >>
    <3>1. Len(entries) = 1
      BY <1>3 DEF Optimize
    <3> QED
      BY <1>1, <3>1
  <2>2. entries[1].genome \in Seq(CandidatesOf(entries[1].domain))
    BY <2>1, GainsAre
  <2>3. PICK replans \in Policies(entries[1].domain) :
          loop' = [status |-> "running", final |-> entries[1].base, accepted |-> 0,
                   tried |-> 0, iterations |-> 0, replans |-> replans, tool |-> TRUE]
    BY <1>3 DEF Optimize
  <2>4. /\ loop'.tried = 0 /\ loop'.iterations = 0 /\ loop'.replans = replans
    BY <2>3
  <2>5. /\ stage' = "loop" /\ entries' = entries /\ limit' = limit /\ iteration' = iteration
        /\ entries[1].domain \in LoopDomains
    BY <1>3 DEF Optimize
  <2>6. Len(entries[1].genome) \in Nat
    BY <2>2
  <2>7. WorkingLoop'
    BY <2>1, <2>3, <2>4, <2>5, <2>6 DEF WorkingLoop
  <2>8. SessionInv' /\ LoopAgreesWithFitness'
    BY <1>1, <2>5 DEF SessionInv, LoopAgreesWithFitness
  <2> QED
    BY <2>7, <2>8 DEF LoopInv
<1>4. CASE OptimizeWithoutTool
  <2>1. /\ stage' = "done" /\ entries' = entries /\ limit' = limit /\ iteration' = iteration
        /\ loop'.status \in {"no_improvement", "failed"} /\ loop'.accepted = 0
        /\ loop'.final = entries[1].base /\ loop'.tool = FALSE
    BY <1>4 DEF OptimizeWithoutTool
  <2>2. Agrees(entries[1], loop')
    BY <2>1 DEF Agrees
  <2>3. Agrees(entries[1], loop)'
    BY <2>1, <2>2
  <2>4. SessionInv' /\ WorkingLoop'
    BY <1>1, <2>1 DEF SessionInv, WorkingLoop
  <2>5. LoopAgreesWithFitness'
    BY <2>3, AgreesIs, PTL
  <2> QED
    BY <2>4, <2>5 DEF LoopInv
<1>5. CASE TryCandidate
  <2> DEFINE e == entries[1]
             n == loop.tried + 1
             c == e.genome[n]
             o == Tried(c, e)
  <2>1. /\ entries # << >> /\ e.domain \in LoopDomains
        /\ loop = [status |-> "running", final |-> e.base, accepted |-> 0,
                   tried |-> loop.tried, iterations |-> loop.iterations,
                   replans |-> loop.replans, tool |-> TRUE]
        /\ loop.tried \in 0 .. Len(e.genome)
        /\ \A i \in 1 .. loop.tried : Gains(e, e.genome[i]) = {}
    BY <1>5 DEF LoopInv, WorkingLoop, TryCandidate
  <2>2. e \in AllEntries
    BY <1>1, <2>1
  <2>3. e.genome \in Seq(CandidatesOf(e.domain))
    BY <2>2, GainsAre
  <2>4. n \in 1 .. Len(e.genome) /\ loop.tried \in Nat /\ n - 1 = loop.tried /\ Len(e.genome) \in Nat
    <3>1. loop.tried < Least(MaxCycles, Len(e.genome)) /\ MaxCycles \in Int /\ Len(e.genome) \in Nat
      BY <1>1, <1>5, <2>3 DEF TryCandidate, MaxCycles, Greatest
    <3>2. loop.tried < Len(e.genome)
      BY <2>1, <3>1 DEF Least
    <3> QED
      BY <2>1, <3>1, <3>2
  <2>5. c \in CandidatesOf(e.domain)
    BY <2>3, <2>4
  <2>6. Outcome(e, c, loop.replans, o)
    <3>1. loop.final = e.base
      BY <2>1
    <3> QED
      BY <2>1, <2>2, <2>5, <3>1, TriedIs
  <2>7. /\ loop' = [loop EXCEPT !.status = o.status, !.final = o.final,
                                !.accepted = IF o.status = "completed" THEN @ + 1 ELSE @,
                                !.tried = @ + 1, !.iterations = @ + 1]
        /\ stage' = IF o.status = "running" THEN "loop" ELSE "done"
        /\ entries' = entries /\ limit' = limit /\ iteration' = iteration
    BY <1>5 DEF TryCandidate
  <2>8. loop' = [status |-> o.status, final |-> o.final,
                 accepted |-> IF o.status = "completed" THEN 1 ELSE 0,
                 tried |-> n, iterations |-> loop.iterations + 1,
                 replans |-> loop.replans, tool |-> TRUE]
    <3>1. PICK t, k, r : loop = [status |-> "running", final |-> e.base, accepted |-> 0,
                                 tried |-> t, iterations |-> k, replans |-> r, tool |-> TRUE]
      BY <2>1
    <3>2. loop.tried = t /\ loop.iterations = k /\ loop.replans = r /\ loop.accepted = 0
      BY <3>1
    <3> HIDE DEF o
    <3>3. loop' = [status |-> o.status, final |-> o.final,
                   accepted |-> IF o.status = "completed" THEN 0 + 1 ELSE 0,
                   tried |-> t + 1, iterations |-> k + 1, replans |-> r, tool |-> TRUE]
      BY <2>7, <3>1
    <3> QED
      BY <3>2, <3>3
  <2>9. entries'[1] = e
    BY <2>7
  <2> HIDE DEF e, c, o, n
  <2>10. SessionInv'
    BY <1>1, <1>5, <2>7 DEF SessionInv, TryCandidate
  <2>11. \A i \in 1 .. n - 1 : Gains(e, e.genome[i]) = {}
    BY <2>1, <2>4
  <2>12. CASE o.status = "replan_required" /\ o.final = e.base /\ loop.replans # DefaultReplans(e.domain)
    <3>1. Agrees(e, loop')
      BY <2>8, <2>12 DEF Agrees
    <3>2. Agrees(entries[1], loop)'
      BY <2>9, <3>1
    <3>3. LoopAgreesWithFitness'
      BY <3>2, AgreesIs, PTL
    <3>4. WorkingLoop'
      BY <2>7, <2>12 DEF WorkingLoop
    <3> QED
      BY <2>10, <3>3, <3>4 DEF LoopInv
  <2>13. CASE o.status = "running" /\ o.final = e.base /\ Gains(e, c) = {}
    <3>1. \A i \in 1 .. n : Gains(e, e.genome[i]) = {}
      <4>1. \A i \in 1 .. n : i \in 1 .. n - 1 \/ i = n
        BY <2>4
      <4>2. Gains(e, e.genome[n]) = {}
        BY <2>13 DEF c
      <4> QED
        BY <2>11, <4>1, <4>2
    <3>2. /\ loop'.tried = n /\ loop'.iterations = loop.iterations + 1 /\ loop'.replans = loop.replans
          /\ stage' = "loop" /\ n \in 0 .. Len(e.genome) /\ entries' # << >>
      BY <2>1, <2>4, <2>7, <2>8, <2>13
    <3>3. WorkingLoop'
      BY <2>1, <2>8, <2>9, <2>13, <3>1, <3>2 DEF WorkingLoop
    <3>4. LoopAgreesWithFitness'
      BY <3>2 DEF LoopAgreesWithFitness
    <3> QED
      BY <2>10, <3>3, <3>4 DEF LoopInv
  <2>14. CASE /\ o.status = "completed"
              /\ \/ Forgets(e)
                 \/ Gains(e, c) = {Ratio(PrimaryOf(e.domain, e.base.metrics), PrimaryOf(e.domain, o.final.metrics))}
    <3> DEFINE gain == Ratio(PrimaryOf(e.domain, e.base.metrics), PrimaryOf(e.domain, o.final.metrics))
               measured == Measure(e, <<c>>)
    <3>1. Forgets(e) \/ (~measured.regression /\ (measured.quality = gain \/ Less(gain, Zero) \/ gain[1] = 0))
      <4> HIDE DEF gain
      <4>1. Forgets(e) \/ Gains(e, c) = {gain}
        BY <2>14 DEF gain
      <4> QED
        BY <2>2, <2>5, <4>1, OneGain
    <3>2. \A i \in 1 .. n - 1 : Measure(e, <<e.genome[i]>>).regression
      <4>1. n - 1 \in 0 .. Len(e.genome)
        BY <2>1, <2>4
      <4> QED
        BY <2>2, <2>11, <4>1, NoGains
    <3>3. /\ loop'.status = "completed" /\ loop'.accepted = 1 /\ loop'.tried = n
          /\ loop'.final.metrics = o.final.metrics
      BY <2>8, <2>14
    <3>4. Agrees(e, loop')
      BY <3>1, <3>2, <3>3 DEF Agrees, c
    <3>5. Agrees(entries[1], loop)'
      BY <2>9, <3>4
    <3>6. LoopAgreesWithFitness'
      BY <3>5, AgreesIs, PTL
    <3>7. WorkingLoop'
      BY <2>7, <2>14 DEF WorkingLoop
    <3> QED
      BY <2>10, <3>6, <3>7 DEF LoopInv
  <2> QED
    BY <2>6, <2>12, <2>13, <2>14 DEF Outcome
<1>6. CASE OutOfCandidates
  <2> DEFINE e == entries[1]
  <2>0. /\ entries # << >>
        /\ loop = [status |-> "running", final |-> e.base, accepted |-> 0,
                   tried |-> loop.tried, iterations |-> loop.iterations,
                   replans |-> loop.replans, tool |-> TRUE]
        /\ loop.tried \in 0 .. Len(e.genome)
        /\ \A i \in 1 .. loop.tried : Gains(e, e.genome[i]) = {}
    BY <1>6 DEF LoopInv, WorkingLoop, OutOfCandidates
  <2>1. loop.accepted = 0 /\ loop.final = e.base
    BY <2>0
  <2>2. /\ stage' = "done" /\ entries' = entries /\ limit' = limit /\ iteration' = iteration
        /\ loop'.status = "no_improvement" /\ loop'.accepted = 0 /\ loop'.final = e.base
        /\ loop'.tried = loop.tried
    <3>1. PICK t, k, r : loop = [status |-> "running", final |-> e.base, accepted |-> 0,
                                 tried |-> t, iterations |-> k, replans |-> r, tool |-> TRUE]
      BY <2>0
    <3> QED
      BY <1>6, <3>1 DEF OutOfCandidates
  <2>3. e \in AllEntries
    BY <1>1, <2>0
  <2> HIDE DEF e
  <2>4. Measure(e, SubSeq(e.genome, 1, loop.tried)).regression
    BY <2>0, <2>3, NoGains
  <2>5. Agrees(e, loop')
    BY <2>2, <2>4 DEF Agrees
  <2>6. Agrees(entries[1], loop)'
    BY <2>2, <2>5 DEF e
  <2>7. LoopAgreesWithFitness'
    BY <2>6, AgreesIs, PTL
  <2>8. SessionInv' /\ WorkingLoop'
    BY <1>1, <2>2 DEF SessionInv, WorkingLoop
  <2> QED
    BY <2>7, <2>8 DEF LoopInv
<1>7. CASE Evolve
  BY <1>1, <1>2, <1>7 DEF Evolve
<1>8. CASE Iterate
  BY <1>1, <1>2, <1>8 DEF Iterate
<1>9. CASE Retain
  BY <1>1, <1>2, <1>9 DEF Retain
<1>10. CASE Pick
  BY <1>1, <1>2, <1>10 DEF Pick
<1>11. CASE Finish
  BY <1>1, <1>2, <1>11 DEF Finish
<1>12. CASE Adopt
  <2>1. /\ stage = "picked" /\ stage' = "evolve" /\ loop' = loop /\ limit' = limit /\ iteration' = iteration
        /\ entries' = [i \in DOMAIN entries |-> [entries[i] EXCEPT !.genome = results[i].genome]]
    BY <1>12 DEF Adopt
  <2>2. /\ DOMAIN entries = 1 .. Len(entries) /\ Len(entries) \in Nat
        /\ \A i \in 1 .. Len(entries) : entries[i] \in AllEntries
    BY <1>1
  <2>3. \A i \in 1 .. Len(entries) : results[i].genome \in Seq(CandidatesOf(entries[i].domain))
    BY <2>1 DEF ReportsInv, ReportOf
  <2>4. ASSUME NEW i \in 1 .. Len(entries)
        PROVE  [entries[i] EXCEPT !.genome = results[i].genome] \in AllEntries
    <3>1. PICK d \in Domains : entries[i] \in EntriesOf(d)
      BY <2>2 DEF AllEntries
    <3>2. entries[i].domain = d
      BY <3>1 DEF EntriesOf
    <3>3. [entries[i] EXCEPT !.genome = results[i].genome] \in EntriesOf(d)
      BY <2>3, <3>1, <3>2 DEF EntriesOf
    <3> QED
      BY <3>3 DEF AllEntries
  <2>5. entries' \in [1 .. Len(entries) -> AllEntries]
    BY <2>1, <2>2, <2>4
  <2>6. entries' \in Seq(AllEntries)
    BY <2>2, <2>5
  <2> QED
    BY <1>1, <2>1, <2>6 DEF LoopInv, SessionInv, WorkingLoop, LoopAgreesWithFitness
<1> QED
  BY <1>3, <1>4, <1>5, <1>6, <1>7, <1>8, <1>9, <1>10, <1>11, <1>12 DEF EvolutionNext

LEMMA ReportsSteps ==
  ASSUME LoopInv, ReportsInv, EvolutionNext
  PROVE  ReportsInv'
<1>1. entries \in Seq(AllEntries) /\ limit \in Int /\ iteration \in Nat
  BY DEF LoopInv, SessionInv
<1>2. /\ results \in Seq(Reports) /\ Len(results) \in Nat /\ Len(entries) \in Nat
      /\ stage \in {"start", "loop"} => results = << >> /\ iteration = 0
      /\ Len(results) <= Len(entries)
      /\ \A i \in 1 .. Len(results) : ReportOf(entries[i], limit, results[i])
      /\ stage = "evolve" /\ iteration > 0 =>
           Len(results) < Len(entries) /\ NotFitter(entries[Len(results) + 1], limit)
      /\ stage = "picked" => /\ Len(results) = Len(entries) /\ iteration = 0
                             /\ IsBest(results, Len(results), winner)
  BY <1>1 DEF ReportsInv
<1>3. MaxIterations \in Nat \ {0}
  BY EvolutionAssumption
<1>4. ASSUME UNCHANGED <<entries, limit, results, iteration>>, stage \in {"start", "loop", "picked"},
             stage' \in {"loop", "evolve", "done"}, stage' # "done" => stage \in {"start", "loop"}
      PROVE  ReportsInv'
  BY <1>2, <1>4 DEF ReportsInv
<1>5. CASE Optimize
  BY <1>4, <1>5 DEF Optimize
<1>6. CASE OptimizeWithoutTool
  BY <1>4, <1>6 DEF OptimizeWithoutTool
<1>7. CASE TryCandidate
  BY <1>4, <1>7 DEF TryCandidate
<1>8. CASE OutOfCandidates
  BY <1>4, <1>8 DEF OutOfCandidates
<1>9. CASE Evolve
  BY <1>4, <1>9 DEF Evolve
<1>10. CASE Finish
  BY <1>4, <1>10 DEF Finish
<1>11. CASE Adopt
  <2>1. /\ stage = "picked" /\ stage' = "evolve" /\ results' = << >> /\ iteration' = iteration
        /\ entries' = [i \in DOMAIN entries |-> [entries[i] EXCEPT !.genome = results[i].genome]]
    BY <1>11 DEF Adopt
  <2>2. DOMAIN entries = 1 .. Len(entries)
    BY <1>1
  <2>3. DOMAIN entries' = 1 .. Len(entries) /\ entries' \in Seq({entries'[i] : i \in 1 .. Len(entries)})
    BY <1>2, <2>1, <2>2
  <2>4. Len(entries') \in Nat /\ << >> \in Seq(Reports) /\ Len(<< >>) = 0
    BY <2>3
  <2>5. iteration' = 0
    BY <1>2, <2>1
  <2> QED
    BY <2>1, <2>4, <2>5 DEF ReportsInv
<1>12. CASE Pick
  <2>1. /\ stage = "evolve" /\ stage' = "picked" /\ Len(results) = Len(entries)
        /\ winner' = BestPromoted
        /\ entries' = entries /\ limit' = limit /\ results' = results /\ iteration' = iteration
    BY <1>12 DEF Pick
  <2>2. iteration = 0
    BY <1>1, <1>2, <2>1
  <2>3. \A i \in 1 .. Len(results) : results[i].fitness \in Signals
    <3>1. \A i \in 1 .. Len(results) : results[i] \in Reports
      BY <1>2
    <3>2. \A r \in Reports : r.fitness \in Signals
      BY DEF Reports
    <3> QED
      BY <3>1, <3>2
  <2>4. IsBest(results, Len(results), BestPromoted)
    BY <1>2, <2>3, BestPromotedIs
  <2> QED
    BY <1>2, <2>1, <2>2, <2>4 DEF ReportsInv
<1>13. ASSUME stage = "evolve", stage' = "evolve", Len(results) < Len(entries),
              entries' = entries, limit' = limit, iteration' = 0,
              NEW r \in Reports, ReportOf(Current, limit, r), results' = Append(results, r)
       PROVE  ReportsInv'
  <2>1. /\ results' \in Seq(Reports) /\ Len(results') = Len(results) + 1
        /\ results'[Len(results) + 1] = r
        /\ \A i \in 1 .. Len(results) : results'[i] = results[i]
    BY <1>2, <1>13
  <2>2. Len(results') <= Len(entries)
    BY <1>2, <1>13, <2>1
  <2>3. ASSUME NEW i \in 1 .. Len(results')
        PROVE  ReportOf(entries[i], limit, results'[i])
    <3>1. i \in 1 .. Len(results) \/ i = Len(results) + 1
      BY <1>2, <2>1
    <3>2. ReportOf(entries[Len(results) + 1], limit, r)
      BY <1>13 DEF Current
    <3> QED
      BY <1>2, <2>1, <3>1, <3>2
  <2> QED
    BY <1>13, <2>1, <2>2, <2>3 DEF ReportsInv
<1> DEFINE e == Current
           candidate == Mutate(e)
           fitness == Evaluate(e, candidate)
           best == Evaluate(e, e.genome)
<1>14. ASSUME Len(results) < Len(entries)
       PROVE  /\ e \in AllEntries
              /\ e.genome \in Seq(CandidatesOf(e.domain)) /\ candidate \in Seq(CandidatesOf(e.domain))
              /\ fitness = EvaluateAt(e, candidate, limit) /\ fitness \in Signals
              /\ best = EvaluateAt(e, e.genome, limit) /\ best \in Signals
              /\ Seq(CandidatesOf(e.domain)) \subseteq UNION {Seq(CandidatesOf(d)) : d \in Domains}
  <2>1. e \in AllEntries
    BY <1>1, <1>2, <1>14 DEF Current
  <2> HIDE DEF e
  <2>2. /\ e.domain \in Domains /\ e.genome \in Seq(CandidatesOf(e.domain))
        /\ candidate \in Seq(CandidatesOf(e.domain))
    BY <2>1, GainsAre, MutateIs
  <2> HIDE DEF candidate
  <2>3. fitness = EvaluateAt(e, candidate, limit) /\ best = EvaluateAt(e, e.genome, limit)
    BY DEF Evaluate, EvaluateAt
  <2> HIDE DEF fitness, best
  <2>4. fitness \in Signals /\ best \in Signals
    BY <1>1, <2>1, <2>2, <2>3, EvaluateSignal
  <2> QED
    BY <2>1, <2>2, <2>3, <2>4
<1>15. CASE Iterate
  <2>1. /\ stage = "evolve" /\ stage' = "evolve" /\ Len(results) < Len(entries)
        /\ entries' = entries /\ limit' = limit
        /\ IF FitterThan(fitness, best)
           THEN /\ results' = Append(results, [promoted |-> TRUE, genome |-> candidate,
                                               fitness |-> fitness, iterations |-> iteration + 1])
                /\ iteration' = 0
           ELSE iteration' = iteration + 1 /\ results' = results
    BY <1>15 DEF Iterate
  <2> HIDE DEF e, candidate, fitness, best
  <2>2. CASE FitterThan(fitness, best)
    <3>1. iteration = 0
      <4> SUFFICES ASSUME iteration > 0 PROVE FALSE
        BY <1>1
      <4>1. NotFitter(e, limit)
        BY <1>2, <2>1 DEF e, Current
      <4> QED
        BY <1>14, <2>1, <2>2, <4>1 DEF NotFitter, candidate
    <3> DEFINE r == [promoted |-> TRUE, genome |-> candidate, fitness |-> fitness, iterations |-> 1]
    <3>2. results' = Append(results, r) /\ iteration' = 0
      BY <2>1, <2>2, <3>1
    <3>3. r \in Reports
      BY <1>14, <2>1 DEF Reports
    <3>4. ReportOf(e, limit, r)
      BY <1>14, <2>1, <2>2 DEF ReportOf, candidate
    <3> HIDE DEF r
    <3> QED
      BY <1>13, <2>1, <3>2, <3>3, <3>4 DEF e
  <2>3. CASE ~FitterThan(fitness, best)
    <3>1. NotFitter(e, limit)
      BY <1>14, <2>1, <2>3 DEF NotFitter, candidate
    <3>2. iteration' = iteration + 1 /\ results' = results
      BY <2>1, <2>3
    <3> QED
      BY <1>2, <2>1, <3>1, <3>2 DEF ReportsInv, e, Current
  <2> QED
    BY <2>2, <2>3
<1>16. CASE Retain
  <2> DEFINE r == [promoted |-> FALSE, genome |-> e.genome, fitness |-> best, iterations |-> MaxIterations]
  <2>1. /\ stage = "evolve" /\ stage' = "evolve" /\ Len(results) < Len(entries)
        /\ entries' = entries /\ limit' = limit /\ iteration' = 0 /\ results' = Append(results, r)
    BY <1>16 DEF Retain
  <2> HIDE DEF e, candidate, fitness, best
  <2>2. r \in Reports
    BY <1>3, <1>14, <2>1 DEF Reports
  <2>3. ReportOf(e, limit, r)
    BY <1>14, <2>1 DEF ReportOf
  <2> HIDE DEF r
  <2> QED
    BY <1>13, <2>1, <2>2, <2>3 DEF e
<1> QED
  BY <1>5, <1>6, <1>7, <1>8, <1>9, <1>10, <1>11, <1>12, <1>15, <1>16 DEF EvolutionNext

LEMMA EvolutionStutters ==
  ASSUME EvolutionIInv, UNCHANGED evolutionVars
  PROVE  EvolutionIInv'
BY DEF evolutionVars, EvolutionIInv, LoopInv, SessionInv, WorkingLoop, LoopAgreesWithFitness, ReportsInv

LEMMA EvolutionInductive ==
  EvolutionSpec => []EvolutionIInv
<1>1. EvolutionInit => EvolutionIInv
  BY EvolutionStarts
<1>2. EvolutionIInv /\ [EvolutionNext]_evolutionVars => EvolutionIInv'
  <2>1. EvolutionIInv /\ EvolutionNext => EvolutionIInv'
    BY LoopSteps, ReportsSteps DEF EvolutionIInv
  <2>2. EvolutionIInv /\ UNCHANGED evolutionVars => EvolutionIInv'
    BY EvolutionStutters
  <2> QED
    BY <2>1, <2>2
<1> QED
  BY <1>1, <1>2, PTL DEF EvolutionSpec

(* The optimization loops and the engine agree on what an improvement is:  *)
(* a loop completes with one acceptance, at the first candidate the        *)
(* engine's evaluation calls an improvement, and reports what it measures; *)
(* otherwise it gives the baseline back.                                   *)
THEOREM LoopAlwaysAgreesWithFitness ==
  EvolutionSpec => []LoopAgreesWithFitness
<1>1. EvolutionIInv => LoopAgreesWithFitness
  BY DEF EvolutionIInv, LoopInv
<1> QED
  BY <1>1, EvolutionInductive, PTL

(* PromotionsMeasured of an entry, its report and the baseline's fitness.  *)
Measured(e, r, before, n) ==
  IF r.promoted
  THEN /\ r.iterations = 1
       /\ \E k \in DOMAIN Prefix(e.genome, n) :
            LET alone == Measure(e, <<r.genome[k]>>)
            IN /\ r.genome = [e.genome EXCEPT ![k].knob = r.genome[k].knob]
               /\ r.genome # e.genome
               /\ ~alone.regression /\ alone.quality = r.fitness.quality
               /\ before.regression \/ Less(before.quality, alone.quality)
  ELSE r.genome = e.genome

LEMMA ReportsMeasured ==
  ASSUME EvolutionIInv
  PROVE  ReportIsMeasured
<1>1. /\ entries \in Seq(AllEntries) /\ limit \in Int
  BY DEF EvolutionIInv, LoopInv, SessionInv
<1>2. /\ results \in Seq(Reports) /\ Len(results) <= Len(entries)
      /\ DOMAIN results = 1 .. Len(results) /\ Len(results) \in Nat /\ Len(entries) \in Nat
      /\ \A i \in 1 .. Len(results) : ReportOf(entries[i], limit, results[i])
      /\ stage = "picked" => IsBest(results, Len(results), winner)
  BY <1>1 DEF EvolutionIInv, ReportsInv
<1>3. ASSUME NEW i \in DOMAIN results
      PROVE  Measured(entries[i], results[i], Evaluate(entries[i], entries[i].genome), limit)
  <2>1. PICK e \in AllEntries : e = entries[i]
    BY <1>1, <1>2
  <2>2. PICK r : r = results[i]
    OBVIOUS
  <2>3. PICK b : b = Evaluate(e, e.genome)
    OBVIOUS
  <2>4. ReportOf(e, limit, r)
    BY <1>2, <2>1, <2>2
  <2>5. CASE r.promoted
    <3>1. PICK h, f : h = r.genome /\ f = r.fitness
      OBVIOUS
    <3>2. r.iterations = 1 /\ h = Mutate(e) /\ f = Evaluate(e, h) /\ FitterThan(f, b)
      BY <2>3, <2>4, <2>5, <3>1 DEF ReportOf, Evaluate, EvaluateAt
    <3>3. \E k \in 1 .. Len(Prefix(e.genome, limit)) : PromotedBy(e, h, f, b, k)
      BY <1>1, <2>3, <3>2, PromotionMeasured
    <3>4. DOMAIN Prefix(e.genome, limit) = 1 .. Len(Prefix(e.genome, limit))
      <4>1. Prefix(e.genome, limit) \in Seq(CandidatesOf(e.domain))
        BY <1>1, GainsAre, PrefixIs
      <4> QED
        BY <4>1
    <3>5. Measured(e, r, b, limit)
      BY <2>5, <3>1, <3>2, <3>3, <3>4 DEF Measured, PromotedBy
    <3> QED
      BY <2>1, <2>2, <2>3, <3>5
  <2>6. CASE ~r.promoted
    BY <2>1, <2>2, <2>4, <2>6 DEF ReportOf, Measured
  <2> QED
    BY <2>5, <2>6
<1>4. PromotionsMeasured
  BY <1>3 DEF PromotionsMeasured, Measured
<1>5. WinnerIsBest
  <2>1. SUFFICES ASSUME stage = "picked" PROVE WinnerIsBest
    BY DEF WinnerIsBest
  <2>2. IsBest(results, Len(results), winner) /\ DOMAIN results = 1 .. Len(results)
    BY <1>2, <2>1
  <2> QED
    BY <2>2 DEF WinnerIsBest, IsBest, Outdoes
<1> QED
  BY <1>4, <1>5 DEF ReportIsMeasured

(* What the engine reports is what it measured: a promotion comes in the   *)
(* first iteration, differs from the baseline genome in the knob of one    *)
(* evaluated candidate, and that candidate alone measures the reported     *)
(* quality; the winner of several is the best of the promotions, and the   *)
(* first of equals.                                                        *)
THEOREM ReportAlwaysMeasured ==
  EvolutionSpec => []ReportIsMeasured
<1>1. EvolutionIInv => ReportIsMeasured
  BY ReportsMeasured
<1> QED
  BY <1>1, EvolutionInductive, PTL
=============================================================================

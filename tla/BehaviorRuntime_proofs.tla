----------------------- MODULE BehaviorRuntime_proofs -----------------------
(***************************************************************************)
(* Proofs about BehaviorRuntime, for any events, behaviors, subscriptions  *)
(* and bounds.                                                             *)
(***************************************************************************)
EXTENDS BehaviorRuntime, DataLemmas

-----------------------------------------------------------------------------
(* The inductive invariant: the depth counter and the open spans determine *)
(* each other only while the loops in progress serve distinct publishes,   *)
(* which they do because each serves a later one than those around it.     *)

Spans(s) == {<<s[k].n, s[k].at>> : k \in {j \in DOMAIN s : s[j].running}}

Nested(s, events, registrations) ==
  /\ s \in Seq(Loops)
  /\ \A k \in DOMAIN s :
       /\ s[k].n <= events
       /\ s[k].running => s[k].at \in 1 .. registrations
       /\ \A j \in DOMAIN s : j < k => s[j].n < s[k].n

IInv ==
  /\ TypeOK
  /\ Balanced
  /\ Nested(stack, eventsProcessed, Len(regs))

-----------------------------------------------------------------------------
(* Lemmas about the stack of loops.                                        *)

(* Every loop of the stack serves a publish made so far.                   *)
LEMMA NestedElement ==
  ASSUME NEW s, NEW n, NEW m, Nested(s, n, m), NEW k \in DOMAIN s
  PROVE  s[k] \in Loops /\ s[k].n \in Nat \ {0} /\ s[k].n <= n
<1>1. s[k] \in Loops
  BY StackElement DEF Nested
<1>2. s[k].n \in Nat \ {0}
  BY <1>1 DEF Loops
<1> QED
  BY <1>1, <1>2 DEF Nested

(* A stack of loops is its innermost loop on the ones around it.           *)
LEMMA NestedPop ==
  ASSUME NEW s, NEW n \in Nat, NEW m \in Nat, Nested(s, n, m), s # << >>
  PROVE  /\ s = Append(Front(s), Last(s))
         /\ Nested(Front(s), n, m)
         /\ Len(Front(s)) = Len(s) - 1
         /\ Len(s) \in Nat \ {0}
         /\ Last(s) \in Loops
         /\ Last(s).n <= n
         /\ Last(s).running => Last(s).at \in 1 .. m
         /\ \A k \in DOMAIN Front(s) : Front(s)[k].n < Last(s).n
<1>1. s \in Seq(Loops) /\ Len(s) \in Nat \ {0} /\ DOMAIN s = 1 .. Len(s)
  BY EmptySeq, LenProperties DEF Nested
<1>2. /\ Front(s) \in Seq(Loops)
      /\ Last(s) \in Loops
      /\ Last(s) = s[Len(s)]
      /\ Len(s) \in DOMAIN s
      /\ Len(Front(s)) = Len(s) - 1
      /\ \A i \in DOMAIN Front(s) : i \in DOMAIN s /\ Front(s)[i] = s[i]
  BY <1>1, StackPop
<1>3. DOMAIN Front(s) = 1 .. Len(s) - 1
  BY <1>2, LenProperties
<1>4. s = Append(Front(s), Last(s))
  <2> DEFINE f == Front(s)
  <2>1. /\ f \in Seq(Loops)
        /\ Len(f) = Len(s) - 1
        /\ \A i \in 1 .. Len(s) - 1 : f[i] = s[i]
    BY <1>2, <1>3
  <2> HIDE DEF f
  <2> DEFINE t == Append(f, Last(s))
  <2>2. /\ t \in Seq(Loops)
        /\ Len(t) = Len(f) + 1
        /\ t[Len(f) + 1] = Last(s)
        /\ \A i \in 1 .. Len(f) : t[i] = f[i]
    BY <1>2, <2>1, AppendProperties
  <2> HIDE DEF t
  <2>3. ASSUME NEW i \in 1 .. Len(s) PROVE t[i] = s[i]
    <3>1. CASE i = Len(s)
      BY <1>1, <1>2, <2>1, <2>2, <3>1
    <3>2. CASE i \in 1 .. Len(s) - 1
      BY <2>1, <2>2, <3>2
    <3>3. Len(s) \in Nat
      BY <1>1
    <3> QED
      BY <3>1, <3>2, <3>3
  <2>4. s = t
    BY <1>1, <2>1, <2>2, <2>3, SeqEqual
  <2> QED
    BY <2>4 DEF t, f
<1>5. Nested(Front(s), n, m)
  BY <1>2 DEF Nested
<1>6. \A k \in DOMAIN Front(s) : Front(s)[k].n < Last(s).n
  BY <1>1, <1>2, <1>3 DEF Nested
<1> QED
  BY <1>1, <1>2, <1>4, <1>5, <1>6 DEF Nested

(* A loop that serves a later publish goes on top.                         *)
LEMMA NestedPush ==
  ASSUME NEW f, NEW n \in Nat, NEW m \in Nat, Nested(f, n, m),
         NEW e \in Loops, e.n <= n, e.running => e.at \in 1 .. m,
         \A k \in DOMAIN f : f[k].n < e.n
  PROVE  Nested(Append(f, e), n, m) /\ Len(Append(f, e)) = Len(f) + 1
<1> DEFINE t == Append(f, e)
<1>1. f \in Seq(Loops) /\ Len(f) \in Nat /\ DOMAIN f = 1 .. Len(f)
  BY LenProperties DEF Nested
<1>2. /\ t \in Seq(Loops)
      /\ Len(t) = Len(f) + 1
      /\ DOMAIN t = 1 .. Len(f) + 1
      /\ t[Len(f) + 1] = e
      /\ \A i \in 1 .. Len(f) : t[i] = f[i]
  BY <1>1, AppendProperties, LenProperties
<1> HIDE DEF t
<1>3. ASSUME NEW k \in DOMAIN t
      PROVE  /\ t[k].n <= n
             /\ t[k].running => t[k].at \in 1 .. m
             /\ \A j \in DOMAIN t : j < k => t[j].n < t[k].n
  <2>1. CASE k = Len(f) + 1
    BY <1>1, <1>2, <2>1
  <2>2. CASE k \in 1 .. Len(f)
    BY <1>1, <1>2, <2>2 DEF Nested
  <2> QED
    BY <1>1, <1>2, <2>1, <2>2
<1>4. Nested(t, n, m)
  BY <1>2, <1>3 DEF Nested
<1> QED
  BY <1>2, <1>4 DEF t

(* More publishes and registrations leave the loops in progress nested.    *)
LEMMA NestedGrows ==
  ASSUME NEW s, NEW n1 \in Nat, NEW n2 \in Nat, NEW m1 \in Nat, NEW m2 \in Nat,
         Nested(s, n1, m1), n1 <= n2, m1 <= m2
  PROVE  Nested(s, n2, m2)
<1>1. ASSUME NEW k \in DOMAIN s PROVE s[k].n <= n2
  <2>1. s[k].n \in Nat /\ s[k].n <= n1
    BY NestedElement
  <2> QED
    BY <2>1
<1>2. 1 .. m1 \subseteq 1 .. m2
  OBVIOUS
<1> QED
  BY <1>1, <1>2 DEF Nested

(* The spans of a stack are those around its innermost loop and its own.   *)
LEMMA SpansPush ==
  ASSUME NEW f \in Seq(Loops), NEW e \in Loops
  PROVE  Spans(Append(f, e)) = Spans(f) \cup (IF e.running THEN {<<e.n, e.at>>} ELSE {})
<1> DEFINE t == Append(f, e)
<1>1. /\ Len(f) \in Nat
      /\ DOMAIN f = 1 .. Len(f)
      /\ DOMAIN t = 1 .. Len(f) + 1
      /\ t[Len(f) + 1] = e
      /\ \A i \in 1 .. Len(f) : t[i] = f[i]
  BY AppendProperties, LenProperties
<1> HIDE DEF t
<1>2. ASSUME NEW x \in Spans(t) PROVE x \in Spans(f) \/ (e.running /\ x = <<e.n, e.at>>)
  BY <1>1 DEF Spans
<1>3. ASSUME NEW x \in Spans(f) PROVE x \in Spans(t)
  BY <1>1 DEF Spans
<1>4. ASSUME e.running PROVE <<e.n, e.at>> \in Spans(t)
  BY <1>1, <1>4 DEF Spans
<1> QED
  BY <1>2, <1>3, <1>4 DEF t

(* No loop around it has a span of the publish the innermost loop serves.  *)
LEMMA SpansDistinct ==
  ASSUME NEW f \in Seq(Loops), NEW e \in Loops, \A k \in DOMAIN f : f[k].n < e.n, NEW i
  PROVE  <<e.n, i>> \notin Spans(f)
BY StackElement DEF Spans, Loops

-----------------------------------------------------------------------------
(* Lemmas about the runtime's steps.                                       *)

StackInv ==
  /\ Nested(stack, eventsProcessed, Len(regs))
  /\ Balanced
  /\ depth \in 0 .. MaxDepth

(* What the invariant says of the innermost loop.                          *)
LEMMA Innermost ==
  ASSUME IInv, ~Idle
  PROVE  /\ Nested(Front(stack), eventsProcessed, Len(regs))
         /\ depth = Len(Front(stack)) + 1
         /\ Top \in Loops
         /\ Top.n <= eventsProcessed
         /\ Top.running => Top.at \in DOMAIN regs
         /\ \A k \in DOMAIN Front(stack) : Front(stack)[k].n < Top.n
         /\ openSpans = Spans(Front(stack))
                          \cup (IF Top.running THEN {<<Top.n, Top.at>>} ELSE {})
         /\ openSpans \ {<<Top.n, Top.at>>} = Spans(Front(stack))
         /\ DOMAIN regs = 1 .. Len(regs) /\ Len(regs) \in Nat
<1>1. eventsProcessed \in Nat /\ Len(regs) \in Nat /\ DOMAIN regs = 1 .. Len(regs)
  BY LenProperties DEF IInv, TypeOK
<1>2. /\ stack = Append(Front(stack), Top)
      /\ Nested(Front(stack), eventsProcessed, Len(regs))
      /\ Len(Front(stack)) = Len(stack) - 1
      /\ Len(stack) \in Nat \ {0}
      /\ Top \in Loops
      /\ Top.n <= eventsProcessed
      /\ Top.running => Top.at \in 1 .. Len(regs)
      /\ \A k \in DOMAIN Front(stack) : Front(stack)[k].n < Top.n
  BY <1>1, NestedPop DEF IInv, Idle, Top
<1>3. openSpans = Spans(stack) /\ depth = Len(stack)
  BY DEF IInv, Balanced, Spans
<1>4. Front(stack) \in Seq(Loops)
  BY <1>2 DEF Nested
<1>5. Spans(stack) = Spans(Front(stack)) \cup (IF Top.running THEN {<<Top.n, Top.at>>} ELSE {})
  BY <1>2, <1>4, SpansPush
<1>6. <<Top.n, Top.at>> \notin Spans(Front(stack))
  BY <1>2, <1>4, SpansDistinct
<1> QED
  BY <1>1, <1>2, <1>3, <1>5, <1>6

(* A step that replaces the innermost loop by another call of the same     *)
(* dispatch, and opens or closes its span accordingly.                     *)
LEMMA SetTopKeeps ==
  ASSUME IInv, ~Idle, NEW e \in Loops, e.n = Top.n, e.running => e.at \in DOMAIN regs,
         SetTop(e), depth' = depth, eventsProcessed' = eventsProcessed, Len(regs') = Len(regs),
         openSpans' = Spans(Front(stack)) \cup (IF e.running THEN {<<e.n, e.at>>} ELSE {})
  PROVE  StackInv'
<1>1. eventsProcessed \in Nat /\ depth \in 0 .. MaxDepth
  BY DEF IInv, TypeOK
<1>2. /\ Nested(stack', eventsProcessed, Len(regs))
      /\ Len(stack') = Len(Front(stack)) + 1
  BY <1>1, Innermost, NestedPush DEF SetTop
<1>3. Spans(stack') = openSpans'
  BY Innermost, SpansPush DEF SetTop, Nested
<1>4. depth' = Len(stack')
  BY <1>2, Innermost
<1> QED
  BY <1>1, <1>2, <1>3, <1>4 DEF StackInv, Balanced, Spans

(* A step that leaves the innermost loop, its span closed.                 *)
LEMMA PopKeeps ==
  ASSUME IInv, ~Idle, stack' = Front(stack), depth' = depth - 1,
         eventsProcessed' = eventsProcessed, Len(regs') = Len(regs),
         openSpans' = Spans(Front(stack))
  PROVE  StackInv'
<1>1. depth \in 0 .. MaxDepth /\ MaxDepth \in Nat
  BY BoundAssumption DEF IInv, TypeOK
<1>2. Nested(stack', eventsProcessed', Len(regs'))
  BY Innermost
<1>3. depth' = Len(stack') /\ Len(stack') \in Nat
  BY <1>1, <1>2, Innermost, LenProperties DEF Nested
<1> QED
  BY <1>1, <1>2, <1>3 DEF StackInv, Balanced, Spans

(* A publish on a stack of nested loops, from outside or from a handler.   *)
LEMMA PublishKeeps ==
  ASSUME IInv, NEW e \in Events, NEW below, PublishOn(e, below),
         Nested(below, eventsProcessed, Len(regs)), depth = Len(below),
         openSpans = Spans(below), UNCHANGED <<regs, openSpans>>
  PROVE  StackInv' /\ eventsProcessed' \in Nat /\ published' \in Seq(Publications)
<1> DEFINE l == Loop(eventsProcessed + 1, e)
<1>1. /\ eventsProcessed \in Nat /\ eventsProcessed' = eventsProcessed + 1
      /\ Len(regs) \in Nat /\ Len(regs') = Len(regs)
      /\ depth \in 0 .. MaxDepth
      /\ MaxDepth \in Nat /\ MaxEmits \in Nat
  BY LenProperties, BoundAssumption DEF IInv, TypeOK, PublishOn
<1>2. published' \in Seq(Publications)
  <2>1. [event |-> e, dropped |-> depth >= MaxDepth, seen |-> 0] \in Publications
    BY DEF Publications
  <2> QED
    BY <2>1, AppendProperties DEF PublishOn, IInv, TypeOK
<1>3. Nested(below, eventsProcessed', Len(regs'))
  BY <1>1, NestedGrows
<1>4. CASE depth >= MaxDepth
  <2>1. stack' = below /\ depth' = depth
    BY <1>4 DEF PublishOn
  <2>2. Balanced'
    BY <1>1, <2>1 DEF Balanced, Spans
  <2> QED
    BY <1>1, <1>2, <1>3, <2>1, <2>2 DEF StackInv
<1>5. CASE ~(depth >= MaxDepth)
  <2>1. stack' = Append(below, l) /\ depth' = depth + 1
    BY <1>5 DEF PublishOn
  <2>2. l \in Loops /\ l.n = eventsProcessed + 1 /\ ~l.running
    BY <1>1 DEF Loop, Loops
  <2>3. ASSUME NEW k \in DOMAIN below PROVE below[k].n < l.n
    <3>1. below[k].n \in Nat /\ below[k].n <= eventsProcessed
      BY NestedElement
    <3> QED
      BY <1>1, <2>2, <3>1
  <2>4. Nested(stack', eventsProcessed', Len(regs')) /\ Len(stack') = Len(below) + 1
    BY <1>1, <1>3, <2>1, <2>2, <2>3, NestedPush
  <2>5. Spans(stack') = Spans(below)
    BY <2>1, <2>2, SpansPush DEF Nested
  <2>6. depth' \in 0 .. MaxDepth
    BY <1>1, <1>5, <2>1
  <2>7. depth' = Len(stack') /\ depth' <= MaxDepth
    BY <1>1, <2>1, <2>4, <2>6
  <2>8. openSpans' = Spans(stack')
    BY <2>5
  <2>9. Balanced'
    BY <2>7, <2>8 DEF Balanced, Spans
  <2> QED
    BY <1>1, <1>2, <2>4, <2>6, <2>9 DEF StackInv
<1> QED
  BY <1>4, <1>5

(* An emitted record keeps the history well typed, stored or not.          *)
LEMMA EmitType ==
  ASSUME TypeOK, NEW type \in {"behavior.triggered", "behavior.failed"}, NEW loop \in Loops,
         Emit(type, loop)
  PROVE  history' \in Seq(AuditEntries) /\ lost' \subseteq DOMAIN history'
<1> DEFINE a == [type |-> type, ts |-> eventsProcessed, run |-> RunOf[loop.event],
                 reg |-> loop.at, trigger |-> loop.n]
<1>1. a \in AuditEntries /\ history' = Append(history, a)
  BY DEF Emit, TypeOK, Loops, AuditEntries
<1> HIDE DEF a
<1>2. /\ history' \in Seq(AuditEntries)
      /\ Len(history') = Len(history) + 1
      /\ Len(history) \in Nat
      /\ DOMAIN history = 1 .. Len(history)
      /\ DOMAIN history' = 1 .. Len(history')
  BY <1>1, AppendProperties, LenProperties DEF TypeOK
<1>3. lost' = lost \/ lost' = lost \cup {Len(history')}
  BY DEF Emit
<1> QED
  BY <1>2, <1>3 DEF TypeOK

-----------------------------------------------------------------------------
(* The inductive invariant.                                                *)

(* The runtime starts with no loop, no span and no registration.           *)
LEMMA InitInv == Init => IInv
<1> SUFFICES ASSUME Init PROVE IInv
  OBVIOUS
<1>1. MaxDepth \in Nat
  BY BoundAssumption
<1>2. TypeOK
  BY <1>1, EmptySeq DEF Init, TypeOK
<1>3. DOMAIN stack = {} /\ Len(stack) = 0 /\ stack \in Seq(Loops)
  BY EmptySeq, LenProperties DEF Init
<1>4. Balanced
  BY <1>1, <1>3 DEF Init, Balanced
<1>5. Nested(stack, eventsProcessed, Len(regs))
  BY <1>3 DEF Nested
<1> QED
  BY <1>2, <1>4, <1>5 DEF IInv

(* register appends a registration; the loops in progress stay nested.     *)
LEMMA RegisterInv ==
  ASSUME IInv, NEW b \in Behaviors, Register(b)
  PROVE  IInv'
<1>1. /\ regs \in Seq(Registrations) /\ eventsProcessed \in Nat
      /\ regs' = Append(regs, [behavior |-> b, fires |-> 0, errors |-> 0])
  BY DEF IInv, TypeOK, Register
<1>2. /\ regs' \in Seq(Registrations)
      /\ Len(regs') = Len(regs) + 1 /\ Len(regs) \in Nat /\ Len(regs') \in Nat
  <2>1. [behavior |-> b, fires |-> 0, errors |-> 0] \in Registrations
    BY DEF Registrations
  <2> QED
    BY <1>1, <2>1, AppendProperties, LenProperties
<1>3. Nested(stack, eventsProcessed, Len(regs'))
  BY <1>1, <1>2, NestedGrows DEF IInv
<1>4. TypeOK'
  BY <1>2 DEF IInv, TypeOK, Register
<1>5. Balanced'
  BY DEF IInv, Balanced, Register
<1> QED
  BY <1>3, <1>4, <1>5 DEF IInv, Register

(* publish from outside: the stack is empty.                               *)
LEMMA PublishInv ==
  ASSUME IInv, NEW e \in Events, Publish(e)
  PROVE  IInv'
<1>1. /\ Nested(stack, eventsProcessed, Len(regs))
      /\ depth = Len(stack) /\ openSpans = Spans(stack)
  BY DEF IInv, Balanced, Spans
<1>2. StackInv' /\ eventsProcessed' \in Nat /\ published' \in Seq(Publications)
  BY <1>1, PublishKeeps DEF Publish
<1>3. publishes' \in Nat
  BY DEF IInv, TypeOK, Publish
<1>4. TypeOK'
  BY <1>2, <1>3 DEF IInv, TypeOK, Publish, StackInv, Nested
<1> QED
  BY <1>2, <1>4 DEF IInv, StackInv

(* publish from a handler: the loop it runs in has counted the emission.   *)
LEMMA HandlerEmitInv ==
  ASSUME IInv, NEW e \in Events, HandlerEmit(e)
  PROVE  IInv'
<1> DEFINE t == [Top EXCEPT !.emits = @ + 1]
           below == Append(Front(stack), t)
<1>1. ~Idle /\ Top.running
  BY DEF HandlerEmit, InHandler
<1>2. eventsProcessed \in Nat /\ MaxEmits \in Nat
  BY BoundAssumption DEF IInv, TypeOK
<1>3. t \in Loops /\ t.n = Top.n /\ t.at = Top.at /\ t.running = Top.running
  <2>1. Top \in Loops /\ Top.emits < MaxEmits
    BY <1>1, Innermost DEF HandlerEmit
  <2>2. Top.emits + 1 \in 0 .. MaxEmits
    BY <1>2, <2>1 DEF Loops
  <2> QED
    BY <2>1, <2>2 DEF Loops
<1> HIDE DEF t
<1>4. Nested(below, eventsProcessed, Len(regs)) /\ depth = Len(below)
  BY <1>1, <1>2, <1>3, Innermost, NestedPush
<1>5. openSpans = Spans(below)
  BY <1>1, <1>3, Innermost, SpansPush DEF Nested
<1>6. PublishOn(e, below) /\ UNCHANGED <<regs, openSpans>>
  BY DEF HandlerEmit, t
<1> HIDE DEF below
<1>7. StackInv' /\ eventsProcessed' \in Nat /\ published' \in Seq(Publications)
  BY <1>4, <1>5, <1>6, PublishKeeps
<1>8. TypeOK'
  BY <1>7 DEF IInv, TypeOK, HandlerEmit, StackInv, Nested
<1> QED
  BY <1>7, <1>8 DEF IInv, StackInv

(* A registration fires: its span is the one that opens.                   *)
LEMMA TriggerInv ==
  ASSUME IInv, NEW i \in 1 .. MaxRegistrations, Trigger(i)
  PROVE  IInv'
<1> DEFINE e == [Top EXCEPT !.at = i, !.running = TRUE, !.emits = 0]
<1>1. ~Idle /\ ~Top.running /\ IsNext(i)
  BY DEF Trigger, Scanning
<1>2. MaxEmits \in Nat /\ MaxRegistrations \in Nat
  BY BoundAssumption
<1>3. Top \in Loops /\ Len(regs) \in Nat /\ DOMAIN regs = 1 .. Len(regs)
  BY <1>1, Innermost
<1>4. e \in Loops /\ e.n = Top.n /\ e.at = i /\ e.running
  <2>1. i \in Nat /\ 0 \in 0 .. MaxEmits
    BY <1>2
  <2> QED
    BY <1>3, <2>1 DEF Loops
<1>5. i \in DOMAIN regs
  BY <1>1, <1>2, <1>3 DEF IsNext, Loops
<1>6. openSpans' = Spans(Front(stack)) \cup {<<e.n, e.at>>}
  BY <1>1, <1>4, Innermost DEF Trigger
<1>7. SetTop(e) /\ Emit("behavior.triggered", e)
  BY DEF Trigger
<1> HIDE DEF e
<1>8. StackInv'
  BY <1>1, <1>4, <1>5, <1>6, <1>7, SetTopKeeps DEF Trigger
<1>9. history' \in Seq(AuditEntries) /\ lost' \subseteq DOMAIN history'
  BY <1>4, <1>7, EmitType DEF IInv
<1>10. triggers' \in Seq([n : Nat \ {0}, reg : Nat \ {0}])
  <2>1. [n |-> Top.n, reg |-> i] \in [n : Nat \ {0}, reg : Nat \ {0}]
    BY <1>2, <1>3 DEF Loops
  <2> QED
    BY <2>1, AppendProperties DEF Trigger, IInv, TypeOK
<1>11. TypeOK'
  BY <1>8, <1>9, <1>10 DEF IInv, TypeOK, Trigger, StackInv, Nested
<1> QED
  BY <1>8, <1>11 DEF IInv, StackInv

(* The handler's end: its span is closed, the loop scans on.               *)
LEMMA HandlerEnds ==
  ASSUME IInv, InHandler, SetTop([Top EXCEPT !.running = FALSE]),
         openSpans' = openSpans \ {<<Top.n, Top.at>>},
         depth' = depth, eventsProcessed' = eventsProcessed, Len(regs') = Len(regs)
  PROVE  StackInv'
<1> DEFINE e == [Top EXCEPT !.running = FALSE]
<1>1. ~Idle
  BY DEF InHandler
<1>2. Top \in Loops
  BY <1>1, Innermost
<1>3. e \in Loops /\ e.n = Top.n /\ ~e.running
  BY <1>2 DEF Loops
<1>4. SetTop(e)
  OBVIOUS
<1> HIDE DEF e
<1>5. openSpans' = Spans(Front(stack)) \cup (IF e.running THEN {<<e.n, e.at>>} ELSE {})
  BY <1>1, <1>3, Innermost
<1> QED
  BY <1>1, <1>3, <1>4, <1>5, SetTopKeeps

(* Counting a call of a registration leaves the list one of registrations. *)
LEMMA CountCall ==
  ASSUME IInv, NEW i \in DOMAIN regs, NEW r \in Registrations
  PROVE  /\ [regs EXCEPT ![i] = r] \in Seq(Registrations)
         /\ Len([regs EXCEPT ![i] = r]) = Len(regs)
BY LenProperties, ExceptSeq DEF IInv, TypeOK

(* What the handler that ends has counted, whichever way it ends.          *)
LEMMA CountsType ==
  ASSUME IInv, InHandler,
         \/ regs' = [regs EXCEPT ![Top.at].fires = @ + 1]
         \/ regs' = [regs EXCEPT ![Top.at].errors = @ + 1]
         \/ regs' = [regs EXCEPT ![Top.at].fires = @ + 1, ![Top.at].errors = @ + 1]
  PROVE  regs' \in Seq(Registrations) /\ Len(regs') = Len(regs)
<1> DEFINE i == Top.at
           r == regs[i]
<1>1. i \in DOMAIN regs
  BY Innermost DEF InHandler
<1>2. r \in Registrations
  BY <1>1, StackElement DEF IInv, TypeOK
<1>3. /\ [r EXCEPT !.fires = @ + 1] \in Registrations
      /\ [r EXCEPT !.errors = @ + 1] \in Registrations
      /\ [r EXCEPT !.fires = @ + 1, !.errors = @ + 1] \in Registrations
  <2> HIDE DEF r
  <2>1. r.fires + 1 \in Nat /\ r.errors + 1 \in Nat
    BY <1>2 DEF Registrations
  <2> QED
    BY <1>2, <2>1 DEF Registrations
<1>4. \/ regs' = [regs EXCEPT ![i] = [r EXCEPT !.fires = @ + 1]]
      \/ regs' = [regs EXCEPT ![i] = [r EXCEPT !.errors = @ + 1]]
      \/ regs' = [regs EXCEPT ![i] = [r EXCEPT !.fires = @ + 1, !.errors = @ + 1]]
  BY <1>1
<1> QED
  BY <1>1, <1>3, <1>4, CountCall

(* The handler returns and its span ends well.                             *)
LEMMA HandlerReturnInv ==
  ASSUME IInv, HandlerReturn
  PROVE  IInv'
<1>1. regs' \in Seq(Registrations) /\ Len(regs') = Len(regs)
  BY CountsType DEF HandlerReturn
<1>2. StackInv'
  BY <1>1, HandlerEnds DEF HandlerReturn
<1>3. TypeOK'
  BY <1>1, <1>2 DEF IInv, TypeOK, HandlerReturn, StackInv, Nested
<1> QED
  BY <1>2, <1>3 DEF IInv, StackInv

(* The handler raises and its span ends well.                              *)
LEMMA HandlerRaiseInv ==
  ASSUME IInv, HandlerRaise
  PROVE  IInv'
<1>1. regs' \in Seq(Registrations) /\ Len(regs') = Len(regs)
  BY CountsType DEF HandlerRaise
<1>2. StackInv'
  BY <1>1, HandlerEnds DEF HandlerRaise
<1>3. history' \in Seq(AuditEntries) /\ lost' \subseteq DOMAIN history'
  BY Innermost, EmitType DEF IInv, HandlerRaise, InHandler
<1>4. TypeOK'
  BY <1>1, <1>2, <1>3 DEF IInv, TypeOK, HandlerRaise, StackInv, Nested
<1> QED
  BY <1>2, <1>4 DEF IInv, StackInv

(* A span whose end raises is kept as one of a handler that was running.   *)
LEMMA BadSpanType ==
  ASSUME IInv, InHandler, NEW status \in {"ok", "error"}, SpanEndRaises(status)
  PROVE  badSpans' \subseteq [n : Nat \ {0}, reg : Nat \ {0}, status : {"ok", "error"}]
<1>1. Top.n \in Nat \ {0} /\ Top.at \in Nat \ {0}
  BY Innermost DEF InHandler, Loops
<1> QED
  BY <1>1 DEF SpanEndRaises, IInv, TypeOK

(* The handler returns, its span's end raises and the loop scans on.       *)
LEMMA HandlerReturnSpanRaisesInv ==
  ASSUME IInv, HandlerReturnSpanRaises
  PROVE  IInv'
<1>1. regs' \in Seq(Registrations) /\ Len(regs') = Len(regs)
  BY CountsType DEF HandlerReturnSpanRaises
<1>2. StackInv'
  BY <1>1, HandlerEnds DEF HandlerReturnSpanRaises, SpanEndRaises
<1>3. history' \in Seq(AuditEntries) /\ lost' \subseteq DOMAIN history'
  BY Innermost, EmitType DEF IInv, HandlerReturnSpanRaises, InHandler
<1>4. badSpans' \subseteq [n : Nat \ {0}, reg : Nat \ {0}, status : {"ok", "error"}]
  BY BadSpanType DEF HandlerReturnSpanRaises
<1>5. TypeOK'
  BY <1>1, <1>2, <1>3, <1>4
  DEF IInv, TypeOK, HandlerReturnSpanRaises, StackInv, Nested
<1> QED
  BY <1>2, <1>5 DEF IInv, StackInv

(* What a loop has seen when it is left is kept with its publish.          *)
LEMMA SeenType ==
  ASSUME IInv, ~Idle, NEW seen \in Nat
  PROVE  [published EXCEPT ![Top.n].seen = seen] \in Seq(Publications)
<1> DEFINE p == [published EXCEPT ![Top.n].seen = seen]
<1>1. published \in Seq(Publications)
  BY DEF IInv, TypeOK
<1>2. CASE Top.n \in DOMAIN published
  <2> DEFINE r == [published[Top.n] EXCEPT !.seen = seen]
  <2>1. r \in Publications
    <3>1. published[Top.n] \in Publications
      BY <1>1, <1>2, StackElement
    <3> QED
      BY <3>1 DEF Publications
  <2>2. p = [published EXCEPT ![Top.n] = r]
    BY <1>2
  <2> HIDE DEF r
  <2> QED
    BY <1>1, <1>2, <2>1, <2>2, LenProperties, ExceptSeq
<1>3. CASE Top.n \notin DOMAIN published
  <2>1. p = published
    BY <1>1, <1>3
  <2> QED
    BY <1>1, <2>1
<1> QED
  BY <1>2, <1>3

(* The handler raises, its span's end raises and the loop is left.         *)
LEMMA HandlerRaiseSpanRaisesInv ==
  ASSUME IInv, HandlerRaiseSpanRaises
  PROVE  IInv'
<1>1. regs' \in Seq(Registrations) /\ Len(regs') = Len(regs)
  BY CountsType DEF HandlerRaiseSpanRaises
<1>2. ~Idle /\ openSpans' = Spans(Front(stack))
  BY Innermost DEF HandlerRaiseSpanRaises, InHandler, SpanEndRaises
<1>3. StackInv'
  BY <1>1, <1>2, PopKeeps DEF HandlerRaiseSpanRaises
<1>4. history' \in Seq(AuditEntries) /\ lost' \subseteq DOMAIN history'
  BY Innermost, EmitType DEF IInv, HandlerRaiseSpanRaises, InHandler
<1>5. badSpans' \subseteq [n : Nat \ {0}, reg : Nat \ {0}, status : {"ok", "error"}]
  BY BadSpanType DEF HandlerRaiseSpanRaises
<1>6. published' \in Seq(Publications)
  <2>1. Top.at \in Nat
    BY <1>2, Innermost DEF Loops
  <2> QED
    BY <1>2, <2>1, SeenType DEF HandlerRaiseSpanRaises
<1>7. TypeOK'
  BY <1>1, <1>3, <1>4, <1>5, <1>6
  DEF IInv, TypeOK, HandlerRaiseSpanRaises, StackInv, Nested
<1> QED
  BY <1>3, <1>7 DEF IInv, StackInv

(* The loop is through: no handler of it is running.                       *)
LEMMA LoopEndInv ==
  ASSUME IInv, LoopEnd
  PROVE  IInv'
<1>1. ~Idle /\ ~Top.running
  BY DEF LoopEnd, Scanning
<1>2. openSpans' = Spans(Front(stack)) /\ Len(regs) \in Nat
  BY <1>1, Innermost DEF LoopEnd
<1>3. StackInv'
  BY <1>1, <1>2, PopKeeps DEF LoopEnd
<1>4. published' \in Seq(Publications)
  BY <1>1, <1>2, SeenType DEF LoopEnd
<1>5. TypeOK'
  BY <1>3, <1>4 DEF IInv, TypeOK, LoopEnd, StackInv, Nested
<1> QED
  BY <1>3, <1>5 DEF IInv, StackInv

(* Every step keeps the invariant, one step of the proof per action.       *)
LEMMA NextInv == IInv /\ [Next]_vars => IInv'
<1> SUFFICES ASSUME IInv, [Next]_vars PROVE IInv'
  OBVIOUS
<1>1. ASSUME NEW b \in Behaviors, Register(b) PROVE IInv'
  BY <1>1, RegisterInv
<1>2. ASSUME NEW e \in Events, Publish(e) PROVE IInv'
  BY <1>2, PublishInv
<1>3. ASSUME NEW e \in Events, HandlerEmit(e) PROVE IInv'
  BY <1>3, HandlerEmitInv
<1>4. ASSUME NEW i \in 1 .. MaxRegistrations, Trigger(i) PROVE IInv'
  BY <1>4, TriggerInv
<1>5. CASE HandlerReturn
  BY <1>5, HandlerReturnInv
<1>6. CASE HandlerRaise
  BY <1>6, HandlerRaiseInv
<1>7. CASE HandlerReturnSpanRaises
  BY <1>7, HandlerReturnSpanRaisesInv
<1>8. CASE HandlerRaiseSpanRaises
  BY <1>8, HandlerRaiseSpanRaisesInv
<1>9. CASE LoopEnd
  BY <1>9, LoopEndInv
<1>10. CASE UNCHANGED vars
  BY <1>10 DEF vars, IInv, TypeOK, Balanced, Nested
<1> QED
  BY <1>1, <1>2, <1>3, <1>4, <1>5, <1>6, <1>7, <1>8, <1>9, <1>10 DEF Next

-----------------------------------------------------------------------------
(* The theorems.                                                           *)

(* The runtime's state stays well typed and the nesting of publishes never *)
(* exceeds max_depth, whatever handlers register, emit or raise.           *)
THEOREM RuntimeTypeCorrect == Spec => []TypeOK
<1>1. IInv => TypeOK
  BY DEF IInv
<1> QED
  BY <1>1, InitInv, NextInv, PTL DEF Spec

(* However handlers nest, fail and register, the depth counter is the      *)
(* number of publishes in progress, at most max_depth, and the open trace  *)
(* spans are exactly those of the handlers running: publish leaves neither *)
(* behind.                                                                 *)
THEOREM RuntimeBalanced == Spec => []Balanced
<1>1. IInv => Balanced
  BY DEF IInv
<1> QED
  BY <1>1, InitInv, NextInv, PTL DEF Spec

-----------------------------------------------------------------------------
(* Every event reaches every registration it is for, once.                 *)

Delivered(n, i) == \E k \in DOMAIN triggers : triggers[k] = [n |-> n, reg |-> i]

(* Registration i is to get publish n.                                     *)
Due(n, i) ==
  /\ published[n].event \in Accepts[regs[i].behavior]
  /\ ActivateAfter[regs[i].behavior] <= n

(* A loop in progress has called all it had to call up to the registration *)
(* it is at, and none behind it.                                           *)
LoopRight(loop) ==
  /\ loop.n \in DOMAIN published
  /\ loop.at \in 0 .. Len(regs)
  /\ ~published[loop.n].dropped
  /\ published[loop.n].event = loop.event
  /\ \A k \in DOMAIN triggers : triggers[k].n = loop.n => triggers[k].reg <= loop.at
  /\ \A i \in 1 .. loop.at : Due(loop.n, i) => Delivered(loop.n, i)

LoopsRight == \A loop \in {stack[s] : s \in DOMAIN stack} : LoopRight(loop)

CallRight(call) ==
  /\ call.n \in DOMAIN published
  /\ call.reg \in DOMAIN regs
  /\ ~published[call.n].dropped
  /\ published[call.n].event \in Accepts[regs[call.reg].behavior]

CallsRight == \A call \in {triggers[k] : k \in DOMAIN triggers} : CallRight(call)

CallsOnce == \A k, l \in DOMAIN triggers : triggers[k] = triggers[l] => k = l

(* A loop that is gone has left what it had seen served.                   *)
SeenServed ==
  \A n \in DOMAIN published :
    /\ published[n].seen \in 0 .. Len(regs)
    /\ ~published[n].dropped /\ ~InProgress(n) =>
         \A i \in 1 .. published[n].seen : Due(n, i) => Delivered(n, i)

DeliveryInv ==
  /\ Len(published) = eventsProcessed
  /\ LoopsRight
  /\ CallsRight
  /\ CallsOnce
  /\ SeenServed

(* Registrations and publishes are added, never changed.                   *)
Grows ==
  /\ Len(regs) \in Nat /\ Len(regs') \in Nat /\ Len(regs) <= Len(regs')
  /\ DOMAIN regs = 1 .. Len(regs) /\ DOMAIN regs' = 1 .. Len(regs')
  /\ \A i \in DOMAIN regs : regs'[i].behavior = regs[i].behavior
  /\ \A n \in DOMAIN published :
       /\ n \in DOMAIN published'
       /\ published'[n].event = published[n].event
       /\ published'[n].dropped = published[n].dropped

(* What was due and delivered stays so, and nothing else becomes it.       *)
LEMMA DueStays ==
  ASSUME Grows, NEW n \in DOMAIN published, NEW i \in DOMAIN regs
  PROVE  Due(n, i)' <=> Due(n, i)
BY DEF Grows, Due

(* A loop that has done its duty has done it when more is registered and   *)
(* published.                                                              *)
LEMMA LoopStaysRight ==
  ASSUME Grows, UNCHANGED triggers, NEW loop, LoopRight(loop),
         NEW next, next.n = loop.n, next.at = loop.at, next.event = loop.event
  PROVE  LoopRight(next)'
<1>1. 1 .. loop.at \subseteq DOMAIN regs
  BY DEF LoopRight, Grows
<1>2. ASSUME NEW i \in 1 .. next.at, Due(next.n, i)' PROVE Delivered(next.n, i)'
  <2>1. i \in DOMAIN regs /\ loop.n \in DOMAIN published
    BY <1>1 DEF LoopRight
  <2>2. Due(loop.n, i)
    BY <1>2, <2>1, DueStays
  <2>3. Delivered(loop.n, i)
    BY <2>2 DEF LoopRight
  <2> QED
    BY <2>3 DEF Delivered
<1> QED
  BY <1>2 DEF LoopRight, Grows

(* A call that was right is right when more is registered and published.   *)
LEMMA CallsStayRight ==
  ASSUME Grows, UNCHANGED triggers, CallsRight, CallsOnce
  PROVE  CallsRight' /\ CallsOnce'
<1>1. ASSUME NEW call, CallRight(call) PROVE CallRight(call)'
  BY <1>1 DEF CallRight, Grows
<1> QED
  BY <1>1 DEF CallsRight, CallsOnce

(* The loops of a stack whose top is replaced.                             *)
LEMMA TopReplaced ==
  ASSUME IInv, ~Idle, NEW e \in Loops, e.n = Top.n
  PROVE  LET t == Append(Front(stack), e)
         IN  /\ \A k \in DOMAIN t : t[k] = e \/ \E j \in DOMAIN stack : t[k] = stack[j]
             /\ \A n : InProgress(n) => \E k \in DOMAIN t : t[k].n = n
             /\ \E k \in DOMAIN t : t[k] = e
             /\ \E j \in DOMAIN stack : stack[j] = Top
             /\ \A k \in DOMAIN t : t[k].n = e.n => t[k] = e
<1> DEFINE t == Append(Front(stack), e)
<1>1. stack \in Seq(Loops) /\ stack # << >>
  BY DEF IInv, TypeOK, Idle
<1>2. /\ t \in Seq(Loops)
      /\ Len(t) = Len(stack)
      /\ DOMAIN t = DOMAIN stack
      /\ t[Len(stack)] = e
      /\ \A i \in DOMAIN stack : i < Len(stack) => t[i] = stack[i]
  BY <1>1, StackReplace
<1>3. /\ Len(stack) \in DOMAIN stack /\ Top = stack[Len(stack)]
      /\ DOMAIN stack = 1 .. Len(stack) /\ Len(stack) \in Nat
  BY <1>1, StackPop, LenProperties DEF Top
<1>4. \A k \in DOMAIN stack : k < Len(stack) => stack[k].n < Top.n
  BY <1>3 DEF IInv, Nested
<1>5. \A k \in DOMAIN stack : stack[k].n \in Nat
  BY NestedElement DEF IInv
<1> HIDE DEF t
<1>6. \A k \in DOMAIN stack : k = Len(stack) \/ k < Len(stack)
  BY <1>3
<1>7. ASSUME NEW k \in DOMAIN t, t[k].n = e.n PROVE t[k] = e
  <2>1. ASSUME k < Len(stack) PROVE FALSE
    <3>1. stack[k].n < Top.n /\ stack[k].n = Top.n
      BY <1>2, <1>4, <1>7, <2>1
    <3>2. stack[k].n \in Nat /\ Top.n \in Nat
      BY <1>2, <1>3, <1>5
    <3> QED
      BY <3>1, <3>2
  <2> QED
    BY <1>2, <1>6, <2>1
<1>8. ASSUME NEW n, InProgress(n) PROVE \E k \in DOMAIN t : t[k].n = n
  <2>1. PICK j \in DOMAIN stack : stack[j].n = n
    BY <1>8 DEF InProgress
  <2> QED
    BY <1>2, <1>3, <1>6, <2>1
<1>9. \A k \in DOMAIN t : t[k] = e \/ \E j \in DOMAIN stack : t[k] = stack[j]
  BY <1>2, <1>6
<1> QED
  BY <1>2, <1>3, <1>7, <1>8, <1>9 DEF t

(* What a loop that is gone had seen served stays served.                  *)
LEMMA SeenStaysServed ==
  ASSUME Grows, UNCHANGED triggers, SeenServed, NEW n \in DOMAIN published,
         published'[n].seen = published[n].seen, InProgress(n) => InProgress(n)'
  PROVE  /\ published'[n].seen \in 0 .. Len(regs')
         /\ ~published'[n].dropped /\ ~InProgress(n)' =>
              \A i \in 1 .. published'[n].seen : Due(n, i)' => Delivered(n, i)'
<1>1. published[n].seen \in 0 .. Len(regs)
  BY DEF SeenServed
<1>2. published'[n].seen \in 0 .. Len(regs') /\ 1 .. published[n].seen \subseteq DOMAIN regs
  BY <1>1 DEF Grows
<1>3. ASSUME ~published'[n].dropped, ~InProgress(n)', NEW i \in 1 .. published'[n].seen,
             Due(n, i)'
      PROVE  Delivered(n, i)'
  <2>1. i \in DOMAIN regs /\ i \in 1 .. published[n].seen
    BY <1>2
  <2>2. Due(n, i)
    BY <1>3, <2>1, DueStays
  <2>3. ~published[n].dropped
    BY <1>3 DEF Grows
  <2>4. Delivered(n, i)
    BY <1>3, <2>1, <2>2, <2>3 DEF SeenServed
  <2> QED
    BY <2>4 DEF Delivered
<1> QED
  BY <1>2, <1>3

(* Counting a call changes no behavior of a registration.                  *)
LEMMA CountsGrow ==
  ASSUME IInv, InHandler, UNCHANGED published,
         \/ regs' = [regs EXCEPT ![Top.at].fires = @ + 1]
         \/ regs' = [regs EXCEPT ![Top.at].errors = @ + 1]
         \/ regs' = [regs EXCEPT ![Top.at].fires = @ + 1, ![Top.at].errors = @ + 1]
  PROVE  Grows
<1>1. regs' \in Seq(Registrations) /\ Len(regs') = Len(regs)
  BY CountsType
<1>2. /\ DOMAIN regs = 1 .. Len(regs) /\ Len(regs) \in Nat
      /\ DOMAIN regs' = 1 .. Len(regs')
  BY <1>1, LenProperties DEF IInv, TypeOK
<1>3. \A i \in DOMAIN regs : regs[i] \in Registrations
  BY StackElement DEF IInv, TypeOK
<1>4. ASSUME NEW i \in DOMAIN regs PROVE regs'[i].behavior = regs[i].behavior
  BY <1>3 DEF Registrations
<1> QED
  BY <1>1, <1>2, <1>4 DEF Grows

(* The handler ends, or is about to publish: its loop is where it was.     *)
LEMMA ReplaceDelivers ==
  ASSUME IInv, DeliveryInv, ~Idle, NEW e \in Loops,
         e.n = Top.n, e.at = Top.at, e.event = Top.event,
         SetTop(e), Grows, UNCHANGED <<triggers, published, eventsProcessed>>
  PROVE  DeliveryInv'
<1>1. /\ \A k \in DOMAIN stack' : stack'[k] = e \/ \E j \in DOMAIN stack : stack'[k] = stack[j]
      /\ \A n : InProgress(n) => \E k \in DOMAIN stack' : stack'[k].n = n
      /\ \E j \in DOMAIN stack : stack[j] = Top
  BY TopReplaced DEF SetTop
<1>2. ASSUME NEW k \in DOMAIN stack', NEW next, next = stack'[k] PROVE LoopRight(next)'
  <2>1. PICK loop \in {stack[j] : j \in DOMAIN stack} :
          next.n = loop.n /\ next.at = loop.at /\ next.event = loop.event
    BY <1>1, <1>2
  <2>2. LoopRight(loop)
    BY DEF DeliveryInv, LoopsRight
  <2> QED
    BY <2>1, <2>2, LoopStaysRight
<1>3. CallsRight' /\ CallsOnce'
  BY CallsStayRight DEF DeliveryInv
<1>4. \A n : InProgress(n) => InProgress(n)'
  BY <1>1 DEF InProgress
<1>5. SeenServed'
  BY <1>4, SeenStaysServed DEF DeliveryInv, SeenServed
<1> QED
  BY <1>2, <1>3, <1>5 DEF DeliveryInv, LoopsRight

(* A publish: it has delivered nothing yet, and no call was made for it.   *)
LEMMA PublishDelivers ==
  ASSUME IInv, DeliveryInv, NEW e \in Events, NEW below \in Seq(Loops), PublishOn(e, below),
         \A k \in DOMAIN below : LoopRight(below[k]),
         \A n : InProgress(n) => \E k \in DOMAIN below : below[k].n = n,
         UNCHANGED <<regs, triggers>>
  PROVE  DeliveryInv'
<1> DEFINE N == eventsProcessed + 1
           p == [event |-> e, dropped |-> depth >= MaxDepth, seen |-> 0]
           l == Loop(N, e)
<1>1. /\ published' = Append(published, p) /\ eventsProcessed' = N
      /\ stack' = below \/ (~p.dropped /\ stack' = Append(below, l))
  BY DEF PublishOn
<1>2. p.event = e /\ p.seen = 0 /\ p \in Publications
  BY DEF Publications
<1> HIDE DEF p
<1>3. /\ DOMAIN published = 1 .. eventsProcessed /\ eventsProcessed \in Nat
      /\ DOMAIN published' = 1 .. N /\ Len(published') = N
      /\ published'[N] = p
      /\ \A n \in DOMAIN published : published'[n] = published[n]
  <2>1. published \in Seq(Publications) /\ Len(published) = eventsProcessed
    BY DEF IInv, TypeOK, DeliveryInv
  <2> QED
    BY <1>1, <1>2, <2>1, AppendProperties, LenProperties
<1>4. Grows
  <2>1. Len(regs) \in Nat /\ DOMAIN regs = 1 .. Len(regs)
    BY LenProperties DEF IInv, TypeOK
  <2> QED
    BY <1>3, <2>1 DEF Grows
<1>5. Len(regs) \in Nat
  BY <1>4 DEF Grows
<1>6. \A k \in DOMAIN triggers : triggers[k].n # N
  BY <1>3 DEF DeliveryInv, CallsRight, CallRight
<1>7. ASSUME ~p.dropped, NEW next, next = l PROVE LoopRight(next)'
  <2>1. next.n = N /\ next.at = 0 /\ next.event = e
    BY <1>7 DEF Loop
  <2> HIDE DEF l
  <2> QED
    BY <1>2, <1>3, <1>5, <1>6, <1>7, <2>1 DEF LoopRight
<1>8. ASSUME NEW k \in DOMAIN below PROVE LoopRight(below[k])'
  BY <1>4, LoopStaysRight
<1>9. ASSUME NEW k \in DOMAIN stack', NEW next, next = stack'[k] PROVE LoopRight(next)'
  <2>1. CASE stack' = below
    BY <1>8, <1>9, <2>1
  <2>2. CASE ~p.dropped /\ stack' = Append(below, l)
    <3>1. l \in Loops
      <4>1. 0 \in 0 .. MaxEmits /\ N \in Nat \ {0}
        BY <1>3, BoundAssumption
      <4> QED
        BY <4>1 DEF Loop, Loops
    <3>2. stack'[k] = l \/ (k \in DOMAIN below /\ stack'[k] = below[k])
      <4> HIDE DEF l
      <4> QED
        BY <2>2, <3>1, StackPush
    <3> HIDE DEF l
    <3> QED
      BY <1>7, <1>8, <1>9, <2>2, <3>2
  <2> QED
    BY <1>1, <2>1, <2>2
<1>10. CallsRight' /\ CallsOnce'
  BY <1>4, CallsStayRight DEF DeliveryInv
<1>11. ASSUME NEW n, InProgress(n) PROVE InProgress(n)'
  <2>1. PICK k \in DOMAIN below : below[k].n = n
    BY <1>11
  <2>2. k \in DOMAIN stack' /\ stack'[k] = below[k]
    <3>1. CASE stack' = below
      BY <3>1
    <3>2. CASE stack' = Append(below, l)
      BY <3>2, AppendProperties, LenProperties
    <3> QED
      BY <1>1, <3>1, <3>2
  <2> QED
    BY <2>1, <2>2 DEF InProgress
<1>12. ASSUME NEW n \in DOMAIN published'
       PROVE  /\ published'[n].seen \in 0 .. Len(regs')
              /\ ~published'[n].dropped /\ ~InProgress(n)' =>
                   \A i \in 1 .. published'[n].seen : Due(n, i)' => Delivered(n, i)'
  <2>1. CASE n \in DOMAIN published
    <3>1. published'[n].seen = published[n].seen
      BY <1>3, <2>1
    <3> QED
      BY <1>4, <1>11, <2>1, <3>1, SeenStaysServed DEF DeliveryInv
  <2>2. CASE n = N
    BY <1>2, <1>3, <1>5, <2>2
  <2> QED
    BY <1>3, <2>1, <2>2
<1> QED
  BY <1>1, <1>3, <1>9, <1>10, <1>12 DEF DeliveryInv, LoopsRight, SeenServed

(* The next registration that fires is called, for the first time; those   *)
(* that the loop passed over on the way were not due.                      *)
LEMMA TriggerDelivers ==
  ASSUME IInv, DeliveryInv, NEW i \in 1 .. MaxRegistrations, Trigger(i)
  PROVE  DeliveryInv'
<1> DEFINE e == [Top EXCEPT !.at = i, !.running = TRUE, !.emits = 0]
           c == [n |-> Top.n, reg |-> i]
<1>1. ~Idle /\ ~Top.running /\ IsNext(i) /\ Top \in Loops /\ Top.n <= eventsProcessed
  BY Innermost DEF Trigger, Scanning
<1>2. e \in Loops /\ e.n = Top.n /\ e.at = i /\ e.event = Top.event
  <2>1. i \in Nat /\ 0 \in 0 .. MaxEmits
    BY BoundAssumption
  <2> QED
    BY <1>1, <2>1 DEF Loops
<1>3. SetTop(e) /\ triggers' = Append(triggers, c) /\ UNCHANGED <<regs, published, eventsProcessed>>
  BY DEF Trigger
<1> HIDE DEF e
<1>4. /\ \A k \in DOMAIN stack' : stack'[k] = e \/ \E j \in DOMAIN stack : stack'[k] = stack[j]
      /\ \A n : InProgress(n) => \E k \in DOMAIN stack' : stack'[k].n = n
      /\ \E j \in DOMAIN stack : stack[j] = Top
      /\ \A k \in DOMAIN stack' : stack'[k].n = e.n => stack'[k] = e
  BY <1>1, <1>2, <1>3, TopReplaced DEF SetTop
<1>5. LoopRight(Top)
  BY <1>4 DEF DeliveryInv, LoopsRight
<1>6. /\ Len(regs) \in Nat /\ DOMAIN regs = 1 .. Len(regs)
      /\ Top.at \in Nat /\ Top.n \in Nat /\ eventsProcessed \in Nat
      /\ i \in Top.at + 1 .. Len(regs) /\ i \in Nat
  BY <1>1, LenProperties DEF IInv, TypeOK, Loops, IsNext
<1>7. c.n = Top.n /\ c.reg = i /\ c \in [n : Nat \ {0}, reg : Nat \ {0}]
  BY <1>1, <1>6 DEF Loops
<1>8. /\ DOMAIN triggers = 1 .. Len(triggers) /\ Len(triggers) \in Nat
      /\ DOMAIN triggers' = 1 .. Len(triggers) + 1
      /\ triggers'[Len(triggers) + 1] = [n |-> Top.n, reg |-> i]
      /\ \A k \in DOMAIN triggers : k \in DOMAIN triggers' /\ triggers'[k] = triggers[k]
      /\ \A k \in DOMAIN triggers : triggers[k] \in [n : Nat \ {0}, reg : Nat \ {0}]
  <2> DEFINE C == [n : Nat \ {0}, reg : Nat \ {0}]
  <2>1. triggers \in Seq(C)
    BY DEF IInv, TypeOK
  <2>2. c \in C
    BY <1>7
  <2> HIDE DEF C, c
  <2>3. /\ DOMAIN triggers = 1 .. Len(triggers) /\ Len(triggers) \in Nat
        /\ DOMAIN triggers' = 1 .. Len(triggers) + 1
        /\ triggers'[Len(triggers) + 1] = c
        /\ \A k \in 1 .. Len(triggers) : triggers'[k] = triggers[k] /\ triggers[k] \in C
    BY <1>3, <2>1, <2>2, AppendProperties, LenProperties, StackElement
  <2> QED
    BY <2>3 DEF C, c
<1> PICK N \in Nat : N = Top.n
  BY <1>6
<1>9. \A k \in DOMAIN triggers' : k \in DOMAIN triggers \/ k = Len(triggers) + 1
  BY <1>8
<1>10. \A k \in DOMAIN triggers : triggers[k].n = Top.n => triggers[k].reg <= Top.at
  BY <1>5 DEF LoopRight
<1>11. \A n, j : Delivered(n, j) => Delivered(n, j)'
  BY <1>8 DEF Delivered
<1>12. Delivered(N, i)'
  <2>1. Len(triggers) + 1 \in DOMAIN triggers'
    BY <1>8
  <2> QED
    BY <1>8, <2>1, <1>2 DEF Delivered
<1>13. ASSUME NEW j \in 1 .. i, Due(N, j) PROVE Delivered(N, j)'
  <2>1. CASE j \in 1 .. Top.at
    BY <1>5, <1>11, <1>13, <2>1 DEF LoopRight
  <2>2. CASE j = i
    BY <1>12, <2>2
  <2>3. CASE j \in Top.at + 1 .. i - 1
    <3>1. ~Fires(j, Top.event)
      BY <1>1, <2>3 DEF IsNext
    <3>2. j \in DOMAIN regs
      BY <1>6, <2>3
    <3>3. ActivateAfter[regs[j].behavior] \in Nat
      <4>1. regs[j] \in Registrations
        BY <3>2, StackElement DEF IInv, TypeOK
      <4>2. regs[j].behavior \in Behaviors
        BY <4>1 DEF Registrations
      <4> QED
        BY <4>2, SubscriptionAssumption
    <3>4. eventsProcessed >= ActivateAfter[regs[j].behavior]
      BY <1>1, <1>6, <1>13, <3>3 DEF Due
    <3> QED
      BY <1>5, <1>13, <3>1, <3>4 DEF Fires, ShouldActivate, Due, LoopRight
  <2> QED
    BY <1>6, <2>1, <2>2, <2>3
<1>14. ASSUME NEW k \in DOMAIN stack', NEW next, next = stack'[k] PROVE LoopRight(next)'
  <2>1. CASE next = e
    <3>1. next.n = Top.n /\ next.at = i /\ next.event = Top.event
      BY <1>2, <2>1
    <3>2. \A m \in DOMAIN triggers' : triggers'[m].n = next.n => triggers'[m].reg <= i
      <4>1. ASSUME NEW m \in DOMAIN triggers, triggers[m].n = Top.n PROVE triggers[m].reg <= i
        <5>1. triggers[m].reg \in Nat /\ triggers[m].reg <= Top.at
          BY <1>8, <1>10, <4>1
        <5> QED
          BY <1>6, <5>1
      <4> QED
        BY <1>6, <1>8, <1>9, <3>1, <4>1
    <3>3. \A j \in 1 .. i : Due(next.n, j)' => Delivered(next.n, j)'
      BY <1>3, <1>13, <3>1 DEF Due
    <3>4. i \in 0 .. Len(regs')
      BY <1>3, <1>6
    <3> QED
      BY <1>3, <1>5, <3>1, <3>2, <3>3, <3>4 DEF LoopRight
  <2>2. CASE next # e
    <3>1. next.n # Top.n
      BY <1>2, <1>4, <1>14, <2>2
    <3>2. LoopRight(next)
      BY <1>4, <1>14, <2>2 DEF DeliveryInv, LoopsRight
    <3>3. \A m \in DOMAIN triggers' : triggers'[m].n = next.n => triggers'[m].reg <= next.at
      BY <1>8, <1>9, <3>1, <3>2 DEF LoopRight
    <3>4. \A j \in 1 .. next.at : Due(next.n, j)' => Delivered(next.n, j)'
      BY <1>3, <1>11, <3>2 DEF LoopRight, Due
    <3> QED
      BY <1>3, <3>2, <3>3, <3>4 DEF LoopRight
  <2> QED
    BY <2>1, <2>2
<1>15. ASSUME NEW k \in DOMAIN triggers', NEW call, call = triggers'[k] PROVE CallRight(call)'
  <2>1. CASE k \in DOMAIN triggers
    <3>1. CallRight(call)
      BY <1>8, <1>15, <2>1 DEF DeliveryInv, CallsRight
    <3> QED
      BY <1>3, <3>1 DEF CallRight
  <2>2. CASE k = Len(triggers) + 1
    <3>1. call.n = Top.n /\ call.reg = i
      BY <1>8, <1>15, <2>2
    <3>2. Top.event \in Accepts[regs[i].behavior] /\ i \in DOMAIN regs
      BY <1>1, <1>6 DEF IsNext, Fires
    <3> QED
      BY <1>3, <1>5, <3>1, <3>2 DEF CallRight, LoopRight
  <2> QED
    BY <1>9, <2>1, <2>2
<1>16. ASSUME NEW k \in DOMAIN triggers PROVE triggers[k] # [n |-> Top.n, reg |-> i]
  <2>1. triggers[k].n = Top.n => triggers[k].reg # i
    BY <1>6, <1>8, <1>10
  <2> QED
    BY <2>1
<1>17. ASSUME NEW k \in DOMAIN triggers', NEW l \in DOMAIN triggers', triggers'[k] = triggers'[l]
       PROVE  k = l
  BY <1>8, <1>9, <1>16, <1>17 DEF DeliveryInv, CallsOnce
<1>18. \A n : InProgress(n) => InProgress(n)'
  BY <1>4 DEF InProgress
<1>19. SeenServed'
  BY <1>3, <1>11, <1>18 DEF DeliveryInv, SeenServed, Due
<1> QED
  BY <1>3, <1>14, <1>15, <1>17, <1>19 DEF DeliveryInv, LoopsRight, CallsRight, CallsOnce

(* A loop is left, at its end or by an exception, and what it had seen is  *)
(* kept: it had served it.                                                 *)
LEMMA PopDelivers ==
  ASSUME IInv, DeliveryInv, ~Idle, stack' = Front(stack), NEW seen \in 0 .. Len(regs),
         published' = [published EXCEPT ![Top.n].seen = seen],
         \A i \in 1 .. seen : Due(Top.n, i) => Delivered(Top.n, i),
         Len(regs') = Len(regs), regs' \in Seq(Registrations),
         \A i \in DOMAIN regs : regs'[i].behavior = regs[i].behavior,
         UNCHANGED <<triggers, eventsProcessed>>
  PROVE  DeliveryInv'
<1>1. stack \in Seq(Loops) /\ stack # << >> /\ published \in Seq(Publications)
  BY DEF IInv, TypeOK, Idle
<1>2. /\ Top = stack[Len(stack)] /\ Len(stack) \in DOMAIN stack
      /\ DOMAIN stack = 1 .. Len(stack) /\ Len(stack) \in Nat
      /\ DOMAIN stack' = 1 .. Len(stack) - 1
      /\ \A k \in DOMAIN stack' : k \in DOMAIN stack /\ stack'[k] = stack[k]
  <2>1. Front(stack) \in Seq(Loops) /\ Len(Front(stack)) = Len(stack) - 1
    BY <1>1, StackPop
  <2> QED
    BY <1>1, <2>1, StackPop, LenProperties DEF Top
<1>3. LoopRight(Top)
  BY <1>2 DEF DeliveryInv, LoopsRight
<1>4. Top.n \in DOMAIN published
  BY <1>3 DEF LoopRight
<1>5. /\ DOMAIN published' = DOMAIN published /\ Len(published') = Len(published)
      /\ \A n \in DOMAIN published :
           /\ published'[n].event = published[n].event
           /\ published'[n].dropped = published[n].dropped
           /\ n # Top.n => published'[n].seen = published[n].seen
           /\ n = Top.n => published'[n].seen = seen
  <2>1. \A n \in DOMAIN published : published[n] \in Publications
    BY <1>1, StackElement
  <2>2. published' \in Seq(Publications)
    <3>1. seen \in Nat
      BY LenProperties DEF IInv, TypeOK
    <3> QED
      BY <3>1, SeenType
  <2>3. DOMAIN published' = DOMAIN published
    OBVIOUS
  <2>4. Len(published') = Len(published)
    <3>1. 1 .. Len(published') = 1 .. Len(published)
      BY <1>1, <2>2, <2>3, LenProperties
    <3>2. Len(published') \in Nat /\ Len(published) \in Nat
      BY <1>1, <2>2, LenProperties
    <3> QED
      BY <3>1, <3>2
  <2> QED
    BY <2>1, <2>3, <2>4 DEF Publications
<1>6. Grows
  <2>1. /\ Len(regs) \in Nat /\ DOMAIN regs = 1 .. Len(regs) /\ DOMAIN regs' = 1 .. Len(regs')
    BY LenProperties DEF IInv, TypeOK
  <2> QED
    BY <1>5, <2>1 DEF Grows
<1>7. ASSUME NEW k \in DOMAIN stack', NEW next, next = stack'[k] PROVE LoopRight(next)'
  <2>1. LoopRight(next)
    BY <1>2, <1>7 DEF DeliveryInv, LoopsRight
  <2> QED
    BY <1>6, <2>1, LoopStaysRight
<1>8. CallsRight' /\ CallsOnce'
  BY <1>6, CallsStayRight DEF DeliveryInv
<1>9. ASSUME NEW n, n # Top.n, InProgress(n) PROVE InProgress(n)'
  <2>1. PICK k \in DOMAIN stack : stack[k].n = n
    BY <1>9 DEF InProgress
  <2>2. k # Len(stack)
    BY <1>2, <1>9, <2>1
  <2>3. k \in DOMAIN stack'
    BY <1>2, <2>2
  <2> QED
    BY <1>2, <2>1, <2>3 DEF InProgress
<1>10. ASSUME NEW n \in DOMAIN published'
       PROVE  /\ published'[n].seen \in 0 .. Len(regs')
              /\ ~published'[n].dropped /\ ~InProgress(n)' =>
                   \A i \in 1 .. published'[n].seen : Due(n, i)' => Delivered(n, i)'
  <2>1. CASE n # Top.n
    BY <1>5, <1>6, <1>9, <2>1, SeenStaysServed DEF DeliveryInv
  <2>2. CASE n = Top.n
    <3>1. ASSUME NEW i \in 1 .. seen, Due(n, i)' PROVE Delivered(n, i)'
      <4>1. i \in DOMAIN regs /\ n \in DOMAIN published
        BY <1>5, <1>6 DEF Grows
      <4>2. Delivered(n, i)
        BY <1>6, <2>2, <3>1, <4>1, DueStays
      <4> QED
        BY <4>2 DEF Delivered
    <3> QED
      BY <1>5, <2>2, <3>1
  <2> QED
    BY <2>1, <2>2
<1> QED
  BY <1>5, <1>7, <1>8, <1>10 DEF DeliveryInv, LoopsRight, SeenServed

(* Every step keeps it, one step of the proof per action.                  *)
LEMMA NextDelivers == IInv /\ DeliveryInv /\ [Next]_vars => DeliveryInv'
<1> SUFFICES ASSUME IInv, DeliveryInv, [Next]_vars PROVE DeliveryInv'
  OBVIOUS
<1>1. /\ regs \in Seq(Registrations) /\ Len(regs) \in Nat /\ DOMAIN regs = 1 .. Len(regs)
      /\ stack \in Seq(Loops)
  BY LenProperties DEF IInv, TypeOK
<1>2. \A k \in DOMAIN stack : \A next : next = stack[k] => LoopRight(next)
  BY DEF DeliveryInv, LoopsRight
<1>3. ASSUME NEW b \in Behaviors, Register(b) PROVE DeliveryInv'
  <2> DEFINE r == [behavior |-> b, fires |-> 0, errors |-> 0]
  <2>1. r \in Registrations
    BY DEF Registrations
  <2>2. regs' = Append(regs, r) /\ UNCHANGED <<stack, published, triggers, eventsProcessed>>
    BY <1>3 DEF Register
  <2> HIDE DEF r
  <2>3. Grows
    BY <1>1, <2>1, <2>2, AppendProperties, LenProperties DEF Grows
  <2>4. ASSUME NEW k \in DOMAIN stack', NEW next, next = stack'[k] PROVE LoopRight(next)'
    BY <1>2, <2>2, <2>3, <2>4, LoopStaysRight
  <2>5. CallsRight' /\ CallsOnce'
    BY <2>2, <2>3, CallsStayRight DEF DeliveryInv
  <2>6. SeenServed'
    BY <2>2, <2>3, SeenStaysServed DEF DeliveryInv, SeenServed, InProgress
  <2> QED
    BY <2>2, <2>4, <2>5, <2>6 DEF DeliveryInv, LoopsRight
<1>4. ASSUME NEW e \in Events, Publish(e) PROVE DeliveryInv'
  <2>1. \A k \in DOMAIN stack : LoopRight(stack[k])
    BY <1>2
  <2>2. PublishOn(e, stack) /\ UNCHANGED <<regs, triggers>>
    BY <1>4 DEF Publish
  <2>3. \A n : InProgress(n) => \E k \in DOMAIN stack : stack[k].n = n
    BY DEF InProgress
  <2>4. PICK below : below = stack
    OBVIOUS
  <2> QED
    BY <1>1, <2>1, <2>2, <2>3, <2>4, PublishDelivers
<1>5. ASSUME NEW e \in Events, HandlerEmit(e) PROVE DeliveryInv'
  <2> DEFINE t == [Top EXCEPT !.emits = @ + 1]
  <2>1. ~Idle /\ Top \in Loops /\ Top.emits < MaxEmits /\ MaxEmits \in Nat
    BY <1>5, Innermost, BoundAssumption DEF HandlerEmit, InHandler
  <2>2. t \in Loops /\ t.n = Top.n /\ t.at = Top.at /\ t.event = Top.event
    <3>1. Top.emits + 1 \in 0 .. MaxEmits
      BY <2>1 DEF Loops
    <3> QED
      BY <2>1, <3>1 DEF Loops
  <2>3. PublishOn(e, Append(Front(stack), t)) /\ UNCHANGED <<regs, triggers>>
    BY <1>5 DEF HandlerEmit
  <2> HIDE DEF t
  <2>4. PICK below : below = Append(Front(stack), t)
    OBVIOUS
  <2>5. /\ \A k \in DOMAIN below : below[k] = t \/ \E j \in DOMAIN stack : below[k] = stack[j]
        /\ \A n : InProgress(n) => \E k \in DOMAIN below : below[k].n = n
        /\ \E j \in DOMAIN stack : stack[j] = Top
    BY <2>1, <2>2, <2>4, TopReplaced
  <2>6. LoopRight(t)
    BY <1>2, <2>2, <2>5 DEF LoopRight
  <2>7. \A k \in DOMAIN below : LoopRight(below[k])
    BY <1>2, <2>5, <2>6
  <2>8. below \in Seq(Loops)
    BY <1>1, <2>1, <2>2, <2>4, StackReplace DEF Idle
  <2> QED
    BY <2>3, <2>4, <2>5, <2>7, <2>8, PublishDelivers
<1>6. ASSUME NEW i \in 1 .. MaxRegistrations, Trigger(i) PROVE DeliveryInv'
  BY <1>6, TriggerDelivers
<1>7. CASE HandlerReturn \/ HandlerRaise \/ HandlerReturnSpanRaises
  <2> DEFINE t == [Top EXCEPT !.running = FALSE]
  <2>1. InHandler /\ SetTop(t) /\ UNCHANGED <<triggers, published, eventsProcessed>>
    BY <1>7 DEF HandlerReturn, HandlerRaise, HandlerReturnSpanRaises
  <2>2. Grows
    BY <1>7, <2>1, CountsGrow DEF HandlerReturn, HandlerRaise, HandlerReturnSpanRaises
  <2>3. ~Idle /\ Top \in Loops
    BY <2>1, Innermost DEF InHandler
  <2>4. t \in Loops /\ t.n = Top.n /\ t.at = Top.at /\ t.event = Top.event
    BY <2>3 DEF Loops
  <2> HIDE DEF t
  <2> QED
    BY <2>1, <2>2, <2>3, <2>4, ReplaceDelivers
<1>8. CASE HandlerRaiseSpanRaises
  <2>1. /\ InHandler /\ stack' = Front(stack)
        /\ published' = [published EXCEPT ![Top.n].seen = Top.at]
        /\ regs' = [regs EXCEPT ![Top.at].errors = @ + 1]
        /\ UNCHANGED <<triggers, eventsProcessed>>
    BY <1>8 DEF HandlerRaiseSpanRaises
  <2>2. Len(regs') = Len(regs) /\ regs' \in Seq(Registrations)
    BY <2>1, CountsType
  <2>3. \A i \in DOMAIN regs : regs'[i].behavior = regs[i].behavior
    <3>1. \A i \in DOMAIN regs : regs[i] \in Registrations
      BY <1>1, StackElement
    <3> QED
      BY <2>1, <3>1 DEF Registrations
  <2>4. ~Idle /\ LoopRight(Top)
    BY <1>1, <1>2, <2>1, StackPop DEF InHandler, Idle, Top
  <2>5. Top.at \in 0 .. Len(regs) /\ \A i \in 1 .. Top.at : Due(Top.n, i) => Delivered(Top.n, i)
    BY <2>4 DEF LoopRight
  <2>6. PICK seen \in 0 .. Len(regs) : seen = Top.at
    BY <2>5
  <2> QED
    BY <2>1, <2>2, <2>3, <2>4, <2>5, <2>6, PopDelivers
<1>9. CASE LoopEnd
  <2>1. /\ ~Idle /\ stack' = Front(stack)
        /\ published' = [published EXCEPT ![Top.n].seen = Len(regs)]
        /\ \A i \in Top.at + 1 .. Len(regs) : ~Fires(i, Top.event)
        /\ UNCHANGED <<regs, triggers, eventsProcessed>>
    BY <1>9 DEF LoopEnd, Scanning
  <2>2. LoopRight(Top)
    BY <1>1, <1>2, <2>1, StackPop DEF Idle, Top
  <2>3. Top.n \in Nat /\ Top.at \in Nat /\ Top.n <= eventsProcessed /\ eventsProcessed \in Nat
    BY <2>1, Innermost DEF Loops, IInv, TypeOK
  <2>4. ASSUME NEW i \in 1 .. Len(regs), Due(Top.n, i) PROVE Delivered(Top.n, i)
    <3>1. CASE i \in 1 .. Top.at
      BY <2>2, <2>4, <3>1 DEF LoopRight
    <3>2. CASE i \in Top.at + 1 .. Len(regs)
      <4>1. regs[i].behavior \in Behaviors
        <5>1. regs[i] \in Registrations
          BY <1>1, StackElement
        <5> QED
          BY <5>1 DEF Registrations
      <4>2. ActivateAfter[regs[i].behavior] \in Nat
        BY <4>1, SubscriptionAssumption
      <4>3. eventsProcessed >= ActivateAfter[regs[i].behavior]
        BY <2>3, <2>4, <4>2 DEF Due
      <4>4. ~Fires(i, Top.event)
        BY <2>1, <3>2
      <4> QED
        BY <2>2, <2>4, <4>3, <4>4 DEF Fires, ShouldActivate, Due, LoopRight
    <3> QED
      BY <1>1, <2>3, <3>1, <3>2
  <2>5. PICK seen \in 0 .. Len(regs) : seen = Len(regs)
    <3>1. Len(regs) \in 0 .. Len(regs)
      BY <1>1
    <3> QED
      BY <3>1
  <2> QED
    BY <1>1, <2>1, <2>4, <2>5, PopDelivers
<1>10. CASE UNCHANGED vars
  <2>1. UNCHANGED <<regs, stack, published, triggers, eventsProcessed>>
    BY <1>10 DEF vars
  <2> QED
    BY <2>1 DEF DeliveryInv, LoopsRight, CallsRight, CallsOnce, SeenServed, LoopRight,
                CallRight, InProgress, Due, Delivered
<1> QED
  BY <1>3, <1>4, <1>5, <1>6, <1>7, <1>8, <1>9, <1>10 DEF Next

(* A publish and a registration are called for at most once, and exactly   *)
(* once if that is on record.                                              *)
LEMMA CountsOfCalls ==
  ASSUME CallsOnce, NEW n, NEW i
  PROVE  /\ TriggersOf(n, i) \in {0, 1}
         /\ TriggersOf(n, i) = 1 <=> Delivered(n, i)
<1> DEFINE K == {k \in DOMAIN triggers : triggers[k] = [n |-> n, reg |-> i]}
<1>1. CASE Delivered(n, i)
  <2>1. PICK k \in DOMAIN triggers : triggers[k] = [n |-> n, reg |-> i]
    BY <1>1 DEF Delivered
  <2>2. K = {k}
    BY <2>1 DEF CallsOnce
  <2>3. Cardinality(K) = 1
    BY <2>2, FS_Singleton
  <2> QED
    BY <1>1, <2>3 DEF TriggersOf
<1>2. CASE ~Delivered(n, i)
  <2>1. K = {}
    BY <1>2 DEF Delivered
  <2>2. Cardinality(K) = 0
    BY <2>1, FS_EmptySet
  <2> QED
    BY <1>2, <2>2 DEF TriggersOf
<1> QED
  BY <1>1, <1>2

(* When a dispatch loop is through, every registration it has seen that    *)
(* matches the event and was active has had its handler called exactly     *)
(* once for it, and no handler is ever called twice or for an event that   *)
(* it does not match: however handlers nest, register, emit and raise.     *)
THEOREM RuntimeDeliversOnce == Spec => []DeliveredOnce
<1>1. Init => IInv /\ DeliveryInv
  <2> SUFFICES ASSUME Init PROVE DeliveryInv
    BY InitInv
  <2>1. published = << >> /\ triggers = << >> /\ stack = << >> /\ eventsProcessed = 0
    BY DEF Init
  <2>2. DOMAIN published = {} /\ DOMAIN triggers = {} /\ DOMAIN stack = {} /\ Len(published) = 0
    BY <2>1, EmptySeq
  <2> QED
    BY <2>1, <2>2 DEF DeliveryInv, LoopsRight, CallsRight, CallsOnce, SeenServed
<1>2. IInv /\ DeliveryInv /\ [Next]_vars => IInv' /\ DeliveryInv'
  BY NextInv, NextDelivers
<1>3. IInv /\ DeliveryInv => DeliveredOnce
  <2> SUFFICES ASSUME IInv, DeliveryInv, NEW n \in DOMAIN published
               PROVE  /\ \A i \in DOMAIN regs :
                           /\ TriggersOf(n, i) <= 1
                           /\ TriggersOf(n, i) = 1 =>
                                /\ ~published[n].dropped
                                /\ published[n].event \in Accepts[regs[i].behavior]
                      /\ ~published[n].dropped /\ ~InProgress(n) =>
                           \A i \in 1 .. published[n].seen :
                             Due(n, i) => TriggersOf(n, i) = 1
    BY DEF DeliveredOnce, Due
  <2>1. ASSUME NEW i
        PROVE  TriggersOf(n, i) \in {0, 1} /\ (TriggersOf(n, i) = 1 <=> Delivered(n, i))
    BY CountsOfCalls DEF DeliveryInv
  <2>2. ASSUME NEW i, Delivered(n, i)
        PROVE  ~published[n].dropped /\ published[n].event \in Accepts[regs[i].behavior]
    <3>1. PICK k \in DOMAIN triggers : triggers[k] = [n |-> n, reg |-> i]
      BY <2>2 DEF Delivered
    <3>2. CallRight(triggers[k])
      BY DEF DeliveryInv, CallsRight
    <3>3. triggers[k].n = n /\ triggers[k].reg = i
      BY <3>1
    <3> QED
      BY <3>2, <3>3 DEF CallRight
  <2>3. ASSUME ~published[n].dropped, ~InProgress(n), NEW i \in 1 .. published[n].seen, Due(n, i)
        PROVE  TriggersOf(n, i) = 1
    BY <2>1, <2>3 DEF DeliveryInv, SeenServed
  <2> QED
    BY <2>1, <2>2, <2>3
<1> QED
  BY <1>1, <1>2, <1>3, PTL DEF Spec

-----------------------------------------------------------------------------
(* fire_count and error_count account for every handler call.              *)

CallsOf(i) == {k \in DOMAIN triggers : triggers[k].reg = i}
RunningAt(s, i) == {k \in DOMAIN s : s[k].running /\ s[k].at = i}
TwiceOf(i) == {b \in badSpans : b.reg = i /\ b.status = "ok"}

One(b) == IF b THEN 1 ELSE 0

(* A running handler has been called, and its span has not gone bad: so    *)
(* the end of a span can raise only once for a call.                       *)
LoopCounted(loop) ==
  loop.running =>
    /\ Delivered(loop.n, loop.at)
    /\ \A b \in badSpans : ~(b.n = loop.n /\ b.reg = loop.at)

LoopsCounted == \A loop \in {stack[s] : s \in DOMAIN stack} : LoopCounted(loop)

CountInv ==
  /\ IsFiniteSet(badSpans)
  /\ LoopsCounted
  /\ \A b \in badSpans : Delivered(b.n, b.reg)
  /\ \A i \in DOMAIN regs :
       regs[i].fires + regs[i].errors + Cardinality(RunningAt(stack, i))
         = Cardinality(CallsOf(i)) + Cardinality(TwiceOf(i))

(* The sets that are counted are finite.                                   *)
LEMMA RunningFinite ==
  ASSUME NEW f \in Seq(Loops), NEW i
  PROVE  IsFiniteSet(RunningAt(f, i)) /\ Cardinality(RunningAt(f, i)) \in Nat
<1>1. Len(f) \in Int /\ 1 \in Int /\ DOMAIN f = 1 .. Len(f)
  BY LenProperties
<1>2. IsFiniteSet(1 .. Len(f)) /\ RunningAt(f, i) \subseteq 1 .. Len(f)
  BY <1>1, FS_Interval DEF RunningAt
<1> QED
  BY <1>2, FS_Subset, FS_CardinalityType

(* So are the calls made of a registration ...                             *)
LEMMA CallsFinite ==
  ASSUME TypeOK, NEW i
  PROVE  IsFiniteSet(CallsOf(i)) /\ Cardinality(CallsOf(i)) \in Nat
<1>1. Len(triggers) \in Int /\ 1 \in Int /\ DOMAIN triggers = 1 .. Len(triggers)
  BY LenProperties DEF TypeOK
<1>2. IsFiniteSet(1 .. Len(triggers)) /\ CallsOf(i) \subseteq 1 .. Len(triggers)
  BY <1>1, FS_Interval DEF CallsOf
<1> QED
  BY <1>2, FS_Subset, FS_CardinalityType

(* ... and the spans that went bad after a call that returned.             *)
LEMMA TwiceFinite ==
  ASSUME CountInv, NEW i
  PROVE  IsFiniteSet(TwiceOf(i)) /\ Cardinality(TwiceOf(i)) \in Nat
<1>1. IsFiniteSet(badSpans) /\ TwiceOf(i) \subseteq badSpans
  BY DEF CountInv, TwiceOf
<1> QED
  BY <1>1, FS_Subset, FS_CardinalityType

(* The handlers running at a registration are those around the innermost   *)
(* loop and its own.                                                       *)
LEMMA RunningPush ==
  ASSUME NEW f \in Seq(Loops), NEW e \in Loops, NEW i
  PROVE  Cardinality(RunningAt(Append(f, e), i))
           = Cardinality(RunningAt(f, i)) + One(e.running /\ e.at = i)
<1> DEFINE t == Append(f, e)
<1>1. /\ Len(f) \in Nat
      /\ DOMAIN f = 1 .. Len(f)
      /\ DOMAIN t = 1 .. Len(f) + 1
      /\ t[Len(f) + 1] = e
      /\ \A k \in 1 .. Len(f) : t[k] = f[k]
  BY AppendProperties, LenProperties
<1> HIDE DEF t
<1>2. IsFiniteSet(RunningAt(f, i)) /\ Cardinality(RunningAt(f, i)) \in Nat
  BY RunningFinite
<1>3. CASE e.running /\ e.at = i
  <2>1. RunningAt(t, i) = RunningAt(f, i) \cup {Len(f) + 1}
    BY <1>1, <1>3 DEF RunningAt
  <2>2. Len(f) + 1 \notin RunningAt(f, i)
    BY <1>1 DEF RunningAt
  <2>3. Cardinality(RunningAt(t, i)) = Cardinality(RunningAt(f, i)) + 1
    BY <1>2, <2>1, <2>2, FS_AddElement
  <2> QED
    BY <1>3, <2>3 DEF t, One
<1>4. CASE ~(e.running /\ e.at = i)
  <2>1. RunningAt(t, i) = RunningAt(f, i)
    BY <1>1, <1>4 DEF RunningAt
  <2> QED
    BY <1>2, <1>4, <2>1 DEF t, One
<1> QED
  BY <1>3, <1>4

(* The same for the stack as it is.                                        *)
LEMMA RunningTop ==
  ASSUME IInv, ~Idle, NEW i
  PROVE  /\ Front(stack) \in Seq(Loops) /\ Top \in Loops
         /\ Cardinality(RunningAt(Front(stack), i)) \in Nat
         /\ Cardinality(RunningAt(stack, i))
              = Cardinality(RunningAt(Front(stack), i)) + One(Top.running /\ Top.at = i)
<1>1. eventsProcessed \in Nat /\ Len(regs) \in Nat
  BY LenProperties DEF IInv, TypeOK
<1>2. stack = Append(Front(stack), Top) /\ Front(stack) \in Seq(Loops) /\ Top \in Loops
  BY <1>1, NestedPop DEF IInv, Idle, Top, Nested
<1> QED
  BY <1>2, RunningPush, RunningFinite

(* A loop whose handler runs or not as before is counted as before.        *)
LEMMA LoopStaysCounted ==
  ASSUME UNCHANGED <<triggers, badSpans>>, NEW loop, LoopCounted(loop),
         NEW next, ~next.running \/ (/\ next.running = loop.running
                                     /\ next.n = loop.n
                                     /\ next.at = loop.at)
  PROVE  LoopCounted(next)'
BY DEF LoopCounted, Delivered

(* When the innermost loop is replaced, the others stay.                   *)
LEMMA TopSet ==
  ASSUME IInv, ~Idle, NEW e \in Loops, e.n = Top.n, SetTop(e)
  PROVE  /\ \A k \in DOMAIN stack' : stack'[k] = e \/ \E j \in DOMAIN stack : stack'[k] = stack[j]
         /\ \A k \in DOMAIN stack' : stack'[k].n = e.n => stack'[k] = e
         /\ \E j \in DOMAIN stack : stack[j] = Top
BY TopReplaced DEF SetTop

(* When a handler ends, what still runs are loops around it, which serve   *)
(* other publishes.                                                        *)
LEMMA TopEnded ==
  ASSUME IInv, InHandler, NEW t, t = [Top EXCEPT !.running = FALSE],
         SetTop(t) \/ stack' = Front(stack)
  PROVE  /\ \E j \in DOMAIN stack : stack[j] = Top
         /\ \A k \in DOMAIN stack' :
              ~stack'[k].running \/ (/\ stack'[k].n # Top.n
                                     /\ \E j \in DOMAIN stack : stack'[k] = stack[j])
<1>1. /\ ~Idle /\ Top \in Loops
      /\ \A k \in DOMAIN Front(stack) : Front(stack)[k].n < Top.n
  BY Innermost DEF InHandler
<1>2. t \in Loops /\ t.n = Top.n /\ ~t.running
  BY <1>1 DEF Loops
<1>3. /\ \A j \in DOMAIN Front(stack) : j \in DOMAIN stack /\ Front(stack)[j] = stack[j]
      /\ Top = stack[Len(stack)] /\ Len(stack) \in DOMAIN stack
  <2>1. stack \in Seq(Loops) /\ stack # << >>
    BY <1>1 DEF IInv, TypeOK, Idle
  <2> QED
    BY <2>1, StackPop DEF Top
<1>4. ASSUME stack' = Front(stack), NEW k \in DOMAIN stack'
      PROVE  stack'[k].n # Top.n /\ \E j \in DOMAIN stack : stack'[k] = stack[j]
  <2>1. k \in DOMAIN stack /\ stack'[k] = stack[k] /\ stack'[k].n < Top.n
    BY <1>1, <1>3, <1>4
  <2>2. stack'[k].n \in Nat /\ Top.n \in Nat
    BY <1>1, <2>1, NestedElement DEF IInv, Loops
  <2> QED
    BY <2>1, <2>2
<1>5. ASSUME SetTop(t), NEW k \in DOMAIN stack'
      PROVE  ~stack'[k].running \/ (/\ stack'[k].n # Top.n
                                    /\ \E j \in DOMAIN stack : stack'[k] = stack[j])
  <2>1. /\ \A j \in DOMAIN stack' : stack'[j] = t \/ \E i \in DOMAIN stack : stack'[j] = stack[i]
        /\ \A j \in DOMAIN stack' : stack'[j].n = t.n => stack'[j] = t
    BY <1>1, <1>2, <1>5, TopSet
  <2> QED
    BY <1>2, <2>1
<1> QED
  BY <1>3, <1>4, <1>5

(* The handler ends in one of its four ways, and what it adds to the       *)
(* counters is what it takes from the handlers running, plus one if its    *)
(* span went bad after it had returned.                                    *)
LEMMA HandlerEndCounts ==
  ASSUME IInv, DeliveryInv, CountInv, InHandler, UNCHANGED triggers,
         NEW t, t = [Top EXCEPT !.running = FALSE],
         SetTop(t) \/ stack' = Front(stack),
         NEW b, b.n = Top.n /\ b.reg = Top.at,
         \/ /\ badSpans' = badSpans
            /\ \/ regs' = [regs EXCEPT ![Top.at].fires = @ + 1]
               \/ regs' = [regs EXCEPT ![Top.at].errors = @ + 1]
         \/ /\ badSpans' = badSpans \cup {b} /\ b.status = "ok"
            /\ regs' = [regs EXCEPT ![Top.at].fires = @ + 1, ![Top.at].errors = @ + 1]
         \/ /\ badSpans' = badSpans \cup {b} /\ b.status = "error"
            /\ regs' = [regs EXCEPT ![Top.at].errors = @ + 1]
  PROVE  CountInv'
<1>1. /\ ~Idle /\ Top.running /\ Top \in Loops /\ Top.at \in DOMAIN regs
      /\ \A k \in DOMAIN Front(stack) : Front(stack)[k].n < Top.n
  BY Innermost DEF InHandler
<1>2. t \in Loops /\ t.n = Top.n /\ ~t.running
  BY <1>1 DEF Loops
<1>3. stack \in Seq(Loops) /\ stack # << >>
  BY <1>1 DEF IInv, TypeOK, Idle
<1>4. LoopCounted(Top)
  <2>1. \E j \in DOMAIN stack : stack[j] = Top
    BY TopEnded
  <2> QED
    BY <2>1 DEF CountInv, LoopsCounted
<1>5. Delivered(Top.n, Top.at) /\ b \notin badSpans
  BY <1>1, <1>4 DEF LoopCounted
<1>6. \A k \in DOMAIN stack' :
        ~stack'[k].running \/ (/\ stack'[k].n # Top.n
                               /\ \E j \in DOMAIN stack : stack'[k] = stack[j])
  BY TopEnded
<1>7. ASSUME NEW k \in DOMAIN stack', NEW next, next = stack'[k] PROVE LoopCounted(next)'
  <2>1. CASE ~next.running
    BY <2>1 DEF LoopCounted
  <2>2. CASE next.running
    <3>1. next.n # Top.n /\ LoopCounted(next)
      BY <1>6, <1>7, <2>2 DEF CountInv, LoopsCounted
    <3>2. \A x \in badSpans' : x \in badSpans \/ x = b
      OBVIOUS
    <3> QED
      BY <2>2, <3>1, <3>2 DEF LoopCounted, Delivered
  <2> QED
    BY <2>1, <2>2
<1>8. IsFiniteSet(badSpans')
  BY FS_AddElement DEF CountInv
<1>9. ASSUME NEW x \in badSpans' PROVE Delivered(x.n, x.reg)'
  <2>1. CASE x \in badSpans
    BY <2>1 DEF CountInv, Delivered
  <2>2. CASE x = b
    BY <1>5, <2>2 DEF Delivered
  <2> QED
    BY <2>1, <2>2
<1>10. ASSUME NEW i \in DOMAIN regs'
       PROVE  regs'[i].fires + regs'[i].errors + Cardinality(RunningAt(stack', i))
                = Cardinality(CallsOf(i)') + Cardinality(TwiceOf(i)')
  <2> DEFINE f == Front(stack)
             running == Cardinality(RunningAt(f, i))
             calls == Cardinality(CallsOf(i))
             twice == Cardinality(TwiceOf(i))
             ended == One(i = Top.at)
  <2>1. i \in DOMAIN regs
    OBVIOUS
  <2>2. /\ f \in Seq(Loops) /\ running \in Nat
        /\ Cardinality(RunningAt(stack, i)) = running + ended
    BY <1>1, RunningTop DEF One
  <2>3. Cardinality(RunningAt(stack', i)) = running
    <3>1. CASE stack' = f
      BY <3>1
    <3>2. CASE SetTop(t)
      <4>1. Cardinality(RunningAt(stack', i)) = running + One(t.running /\ t.at = i)
        BY <1>2, <2>2, <3>2, RunningPush DEF SetTop
      <4> QED
        BY <1>2, <2>2, <4>1 DEF One
    <3> QED
      BY <3>1, <3>2
  <2>4. Cardinality(CallsOf(i)') = calls /\ calls \in Nat
    BY CallsFinite DEF CallsOf, IInv
  <2>5. twice \in Nat /\ IsFiniteSet(TwiceOf(i))
    BY TwiceFinite
  <2>6. regs[i].fires \in Nat /\ regs[i].errors \in Nat
    <3>1. regs[i] \in Registrations
      BY <2>1, StackElement DEF IInv, TypeOK
    <3> QED
      BY <3>1 DEF Registrations
  <2>7. regs[i].fires + regs[i].errors + (running + ended) = calls + twice
    BY <2>1, <2>2 DEF CountInv
  <2>8. ASSUME badSpans' = badSpans \/ (b.status = "error" /\ badSpans' = badSpans \cup {b})
        PROVE  TwiceOf(i)' = TwiceOf(i)
    BY <2>8 DEF TwiceOf
  <2>9. ASSUME b.status = "ok", badSpans' = badSpans \cup {b}
        PROVE  Cardinality(TwiceOf(i)') = twice + ended
    <3>1. CASE i = Top.at
      <4>1. TwiceOf(i)' = TwiceOf(i) \cup {b} /\ b \notin TwiceOf(i)
        BY <1>5, <2>9, <3>1 DEF TwiceOf
      <4>2. Cardinality(TwiceOf(i)') = twice + 1
        BY <2>5, <4>1, FS_AddElement
      <4> QED
        BY <3>1, <4>2 DEF One
    <3>2. CASE i # Top.at
      <4>1. TwiceOf(i)' = TwiceOf(i)
        BY <2>9, <3>2 DEF TwiceOf
      <4> QED
        BY <2>5, <3>2, <4>1 DEF One
    <3> QED
      BY <3>1, <3>2
  <2>10. regs[i] \in Registrations
    BY <2>1, StackElement DEF IInv, TypeOK
  <2>11. \/ /\ Cardinality(TwiceOf(i)') = twice
            /\ regs'[i].fires + regs'[i].errors = regs[i].fires + regs[i].errors + ended
         \/ /\ Cardinality(TwiceOf(i)') = twice + ended
            /\ regs'[i].fires + regs'[i].errors = regs[i].fires + regs[i].errors + ended + ended
    <3> HIDE DEF twice
    <3>1. CASE regs' = [regs EXCEPT ![Top.at].fires = @ + 1] /\ badSpans' = badSpans
      <4>1. Cardinality(TwiceOf(i)') = twice
        BY <2>8, <3>1 DEF twice
      <4>2. regs'[i].fires + regs'[i].errors = regs[i].fires + regs[i].errors + ended
        BY <2>1, <2>6, <2>10, <3>1 DEF One, Registrations
      <4> QED
        BY <4>1, <4>2
    <3>2. CASE /\ regs' = [regs EXCEPT ![Top.at].errors = @ + 1]
               /\ \/ badSpans' = badSpans
                  \/ b.status = "error" /\ badSpans' = badSpans \cup {b}
      <4>1. Cardinality(TwiceOf(i)') = twice
        BY <2>8, <3>2 DEF twice
      <4>2. regs'[i].fires + regs'[i].errors = regs[i].fires + regs[i].errors + ended
        BY <2>1, <2>6, <2>10, <3>2 DEF One, Registrations
      <4> QED
        BY <4>1, <4>2
    <3>3. CASE /\ regs' = [regs EXCEPT ![Top.at].fires = @ + 1, ![Top.at].errors = @ + 1]
               /\ b.status = "ok" /\ badSpans' = badSpans \cup {b}
      <4>1. Cardinality(TwiceOf(i)') = twice + ended
        BY <2>9, <3>3
      <4>2. regs'[i].fires + regs'[i].errors = regs[i].fires + regs[i].errors + ended + ended
        BY <2>1, <2>6, <2>10, <3>3 DEF One, Registrations
      <4> QED
        BY <4>1, <4>2
    <3> QED
      BY <3>1, <3>2, <3>3
  <2>12. ended \in Nat
    BY DEF One
  <2> HIDE DEF running, calls, twice, ended, f
  <2> QED
    BY <2>2, <2>3, <2>4, <2>5, <2>6, <2>7, <2>11, <2>12
<1> QED
  BY <1>7, <1>8, <1>9, <1>10 DEF CountInv, LoopsCounted

(* A publish leaves the running handlers running: its own loop runs none.  *)
LEMMA PublishCounts ==
  ASSUME IInv, CountInv, UNCHANGED <<regs, triggers, badSpans>>,
         NEW e \in Events, NEW below \in Seq(Loops), PublishOn(e, below),
         \A k \in DOMAIN below : LoopCounted(below[k]),
         \A i : Cardinality(RunningAt(below, i)) = Cardinality(RunningAt(stack, i))
  PROVE  CountInv'
<1> DEFINE l == Loop(eventsProcessed + 1, e)
<1>1. l \in Loops /\ ~l.running
  BY BoundAssumption DEF Loop, Loops, IInv, TypeOK
<1>2. stack' = below \/ stack' = Append(below, l)
  BY DEF PublishOn
<1> HIDE DEF l
<1>3. ASSUME NEW k \in DOMAIN stack', NEW next, next = stack'[k] PROVE LoopCounted(next)'
  <2>1. next = l \/ \E j \in DOMAIN below : next = below[j]
    BY <1>1, <1>2, <1>3, AppendProperties, LenProperties
  <2>2. CASE next = l
    BY <1>1, <2>2 DEF LoopCounted
  <2>3. CASE \E j \in DOMAIN below : next = below[j]
    <3>1. LoopCounted(next)
      BY <2>3
    <3> QED
      BY <3>1, LoopStaysCounted
  <2> QED
    BY <2>1, <2>2, <2>3
<1>4. ASSUME NEW i
      PROVE  Cardinality(RunningAt(stack', i)) = Cardinality(RunningAt(stack, i))
  <2>1. CASE stack' = below
    BY <2>1
  <2>2. CASE stack' = Append(below, l)
    <3>1. Cardinality(RunningAt(stack', i)) = Cardinality(RunningAt(below, i)) + 0
      BY <1>1, <2>2, RunningPush DEF One
    <3>2. Cardinality(RunningAt(below, i)) \in Nat
      BY RunningFinite
    <3> QED
      BY <3>1, <3>2
  <2> QED
    BY <1>2, <2>1, <2>2
<1>5. \A i \in DOMAIN regs' :
        regs'[i].fires + regs'[i].errors + Cardinality(RunningAt(stack', i))
          = Cardinality(CallsOf(i)') + Cardinality(TwiceOf(i)')
  BY <1>4 DEF CountInv, CallsOf, TwiceOf
<1>6. IsFiniteSet(badSpans') /\ \A b \in badSpans' : Delivered(b.n, b.reg)'
  BY DEF CountInv, Delivered
<1> QED
  BY <1>3, <1>5, <1>6 DEF CountInv, LoopsCounted

(* The handler called is counted as running, and it is called for the      *)
(* first time, so that none of its spans went bad.                         *)
LEMMA TriggerCounts ==
  ASSUME IInv, DeliveryInv, CountInv, NEW i \in 1 .. MaxRegistrations, Trigger(i)
  PROVE  CountInv'
<1> DEFINE e == [Top EXCEPT !.at = i, !.running = TRUE, !.emits = 0]
           c == [n |-> Top.n, reg |-> i]
<1>1. ~Idle /\ ~Top.running /\ IsNext(i) /\ Top \in Loops
  BY Innermost DEF Trigger, Scanning
<1>2. /\ e \in Loops
      /\ e.n = Top.n /\ e.at = i /\ e.running
  <2>1. i \in Nat /\ 0 \in 0 .. MaxEmits
    BY BoundAssumption
  <2> QED
    BY <1>1, <2>1 DEF Loops
<1>3. /\ SetTop(e)
      /\ triggers' = Append(triggers, c)
      /\ UNCHANGED <<regs, badSpans>>
  BY DEF Trigger
<1>4. c \in [n : Nat \ {0}, reg : Nat \ {0}] /\ c.n = Top.n /\ c.reg = i
  BY <1>1 DEF Loops
<1>5. /\ \A k \in DOMAIN triggers : k \in DOMAIN triggers' /\ triggers'[k] = triggers[k]
      /\ DOMAIN triggers' = DOMAIN triggers \cup {Len(triggers) + 1}
      /\ Len(triggers) + 1 \notin DOMAIN triggers
      /\ triggers'[Len(triggers) + 1] = c
      /\ \A k \in DOMAIN triggers : triggers[k].reg \in Nat
  <2> DEFINE C == [n : Nat \ {0}, reg : Nat \ {0}]
  <2>1. triggers \in Seq(C)
    BY DEF IInv, TypeOK
  <2>2. c \in C
    BY <1>4
  <2>3. \A x \in C : x.reg \in Nat
    OBVIOUS
  <2> HIDE DEF C, c
  <2>4. /\ DOMAIN triggers = 1 .. Len(triggers) /\ Len(triggers) \in Nat
        /\ DOMAIN triggers' = 1 .. Len(triggers) + 1
        /\ triggers'[Len(triggers) + 1] = c
        /\ \A k \in 1 .. Len(triggers) : triggers'[k] = triggers[k] /\ triggers[k] \in C
    BY <1>3, <2>1, <2>2, AppendProperties, LenProperties, StackElement
  <2> QED
    BY <2>3, <2>4
<1>6. /\ \A k \in DOMAIN stack' : stack'[k] = e \/ \E j \in DOMAIN stack : stack'[k] = stack[j]
      /\ \E j \in DOMAIN stack : stack[j] = Top
  BY <1>1, <1>2, <1>3, TopSet
<1>7. Top.at \in Nat /\ i > Top.at
  BY <1>1, LenProperties DEF IsNext, IInv, TypeOK, Loops
<1>8. \A k \in DOMAIN triggers : triggers[k].n = Top.n => triggers[k].reg <= Top.at
  BY <1>6 DEF DeliveryInv, LoopsRight, LoopRight
<1>9. ~Delivered(Top.n, i)
  <2>1. ASSUME NEW k \in DOMAIN triggers, triggers[k] = c PROVE FALSE
    BY <1>4, <1>7, <1>8, <2>1
  <2> QED
    BY <2>1 DEF Delivered
<1> PICK N : N = Top.n
  OBVIOUS
<1>10. \A n, j : Delivered(n, j) => Delivered(n, j)'
  BY <1>5 DEF Delivered
<1>11. Delivered(N, i)'
  BY <1>5 DEF Delivered
<1> HIDE DEF e
<1>12. ASSUME NEW k \in DOMAIN stack', NEW next, next = stack'[k] PROVE LoopCounted(next)'
  <2>1. CASE next = e
    <3>1. next.n = N /\ next.at = i
      BY <1>2, <2>1
    <3>2. \A b \in badSpans : ~(b.n = N /\ b.reg = i)
      BY <1>9 DEF CountInv
    <3> QED
      BY <1>3, <1>11, <3>1, <3>2 DEF LoopCounted
  <2>2. CASE \E j \in DOMAIN stack : next = stack[j]
    <3>1. LoopCounted(next)
      BY <2>2 DEF CountInv, LoopsCounted
    <3> QED
      BY <1>3, <1>10, <3>1 DEF LoopCounted
  <2> QED
    BY <1>6, <1>12, <2>1, <2>2
<1>13. IsFiniteSet(badSpans') /\ \A b \in badSpans' : Delivered(b.n, b.reg)'
  BY <1>3, <1>10 DEF CountInv
<1>14. ASSUME NEW j
       PROVE  Cardinality(CallsOf(j)') = Cardinality(CallsOf(j)) + One(j = i)
  <2>1. IsFiniteSet(CallsOf(j)) /\ Cardinality(CallsOf(j)) \in Nat
    BY CallsFinite DEF IInv
  <2>2. CASE j = i
    <3>1. CallsOf(j)' = CallsOf(j) \cup {Len(triggers) + 1}
      BY <1>4, <1>5, <2>2 DEF CallsOf
    <3>2. Len(triggers) + 1 \notin CallsOf(j)
      BY <1>5 DEF CallsOf
    <3>3. Cardinality(CallsOf(j)') = Cardinality(CallsOf(j)) + 1
      BY <2>1, <3>1, <3>2, FS_AddElement
    <3> QED
      BY <2>2, <3>3 DEF One
  <2>3. CASE j # i
    <3>1. CallsOf(j)' = CallsOf(j)
      BY <1>4, <1>5, <2>3 DEF CallsOf
    <3> QED
      BY <2>1, <2>3, <3>1 DEF One
  <2> QED
    BY <2>2, <2>3
<1>15. ASSUME NEW j
       PROVE  /\ Cardinality(RunningAt(stack', j)) = Cardinality(RunningAt(stack, j)) + One(j = i)
              /\ Cardinality(RunningAt(stack, j)) \in Nat
  <2>1. /\ Front(stack) \in Seq(Loops)
        /\ Cardinality(RunningAt(Front(stack), j)) \in Nat
        /\ Cardinality(RunningAt(stack, j)) = Cardinality(RunningAt(Front(stack), j)) + 0
    BY <1>1, RunningTop DEF One
  <2>2. Cardinality(RunningAt(stack', j))
          = Cardinality(RunningAt(Front(stack), j)) + One(e.running /\ e.at = j)
    BY <1>2, <1>3, <2>1, RunningPush DEF SetTop
  <2> QED
    BY <1>2, <2>1, <2>2 DEF One
<1>16. ASSUME NEW j \in DOMAIN regs'
       PROVE  regs'[j].fires + regs'[j].errors + Cardinality(RunningAt(stack', j))
                = Cardinality(CallsOf(j)') + Cardinality(TwiceOf(j)')
  <2>1. j \in DOMAIN regs /\ regs' = regs /\ TwiceOf(j)' = TwiceOf(j)
    BY <1>3 DEF TwiceOf
  <2>2. regs[j].fires \in Nat /\ regs[j].errors \in Nat
    <3>1. regs[j] \in Registrations
      BY <2>1, StackElement DEF IInv, TypeOK
    <3> QED
      BY <3>1 DEF Registrations
  <2>3. Cardinality(CallsOf(j)) \in Nat /\ Cardinality(TwiceOf(j)) \in Nat
    BY CallsFinite, TwiceFinite DEF IInv
  <2>4. regs[j].fires + regs[j].errors + Cardinality(RunningAt(stack, j))
          = Cardinality(CallsOf(j)) + Cardinality(TwiceOf(j))
    BY <2>1 DEF CountInv
  <2>5. One(j = i) \in Nat
    BY DEF One
  <2> QED
    BY <1>14, <1>15, <2>1, <2>2, <2>3, <2>4, <2>5
<1> QED
  BY <1>12, <1>13, <1>16 DEF CountInv, LoopsCounted

(* Nobody has called a new registration.                                   *)
LEMMA RegisterCounts ==
  ASSUME IInv, DeliveryInv, CountInv, NEW b \in Behaviors, Register(b)
  PROVE  CountInv'
<1> DEFINE r == [behavior |-> b, fires |-> 0, errors |-> 0]
           i == Len(regs) + 1
<1>1. r \in Registrations /\ r.fires = 0 /\ r.errors = 0
  BY DEF Registrations
<1>2. regs' = Append(regs, r) /\ UNCHANGED <<stack, triggers, badSpans>>
  BY DEF Register
<1> HIDE DEF r
<1>3. /\ Len(regs) \in Nat /\ DOMAIN regs = 1 .. Len(regs)
      /\ DOMAIN regs' = DOMAIN regs \cup {i}
      /\ i \notin DOMAIN regs
      /\ regs'[i] = r
      /\ \A j \in DOMAIN regs : regs'[j] = regs[j]
  <2>1. regs \in Seq(Registrations)
    BY DEF IInv, TypeOK
  <2>2. /\ Len(regs) \in Nat /\ DOMAIN regs = 1 .. Len(regs)
        /\ DOMAIN regs' = 1 .. i
        /\ regs'[i] = r
        /\ \A j \in 1 .. Len(regs) : regs'[j] = regs[j]
    BY <1>1, <1>2, <2>1, AppendProperties, LenProperties
  <2> QED
    BY <2>2
<1>4. ASSUME NEW n PROVE ~Delivered(n, i)
  <2>1. ASSUME NEW k \in DOMAIN triggers, triggers[k] = [n |-> n, reg |-> i] PROVE FALSE
    <3>1. triggers[k].reg \in DOMAIN regs
      BY DEF DeliveryInv, CallsRight, CallRight
    <3> QED
      BY <1>3, <2>1, <3>1
  <2> QED
    BY <2>1 DEF Delivered
<1>5. RunningAt(stack, i) = {}
  <2>1. \A k \in DOMAIN stack : stack[k].running => stack[k].at \in 1 .. Len(regs)
    BY DEF IInv, Nested
  <2> QED
    BY <1>3, <2>1 DEF RunningAt
<1>6. CallsOf(i) = {}
  <2>1. \A k \in DOMAIN triggers : triggers[k].reg \in DOMAIN regs
    BY DEF DeliveryInv, CallsRight, CallRight
  <2> QED
    BY <1>3, <2>1 DEF CallsOf
<1>7. TwiceOf(i) = {}
  BY <1>4 DEF CountInv, TwiceOf
<1>8. ASSUME NEW j \in DOMAIN regs'
      PROVE  regs'[j].fires + regs'[j].errors + Cardinality(RunningAt(stack', j))
               = Cardinality(CallsOf(j)') + Cardinality(TwiceOf(j)')
  <2>1. /\ RunningAt(stack', j) = RunningAt(stack, j)
        /\ CallsOf(j)' = CallsOf(j) /\ TwiceOf(j)' = TwiceOf(j)
    BY <1>2 DEF CallsOf, TwiceOf
  <2>2. CASE j \in DOMAIN regs
    BY <1>3, <2>1, <2>2 DEF CountInv
  <2>3. CASE j = i
    <3>1. Cardinality({}) = 0
      BY FS_EmptySet
    <3>2. RunningAt(stack, j) = {} /\ CallsOf(j) = {} /\ TwiceOf(j) = {}
      BY <1>5, <1>6, <1>7, <2>3
    <3>3. regs'[j].fires = 0 /\ regs'[j].errors = 0
      BY <1>1, <1>3, <2>3
    <3> QED
      BY <2>1, <3>1, <3>2, <3>3
  <2> QED
    BY <1>3, <2>2, <2>3
<1>9. ASSUME NEW k \in DOMAIN stack', NEW next, next = stack'[k] PROVE LoopCounted(next)'
  <2>1. LoopCounted(next)
    BY <1>2, <1>9 DEF CountInv, LoopsCounted
  <2> QED
    BY <1>2, <2>1, LoopStaysCounted
<1>10. IsFiniteSet(badSpans') /\ \A s \in badSpans' : Delivered(s.n, s.reg)'
  BY <1>2 DEF CountInv, Delivered
<1> QED
  BY <1>8, <1>9, <1>10 DEF CountInv, LoopsCounted

(* Every step keeps it, one step of the proof per action.                  *)
LEMMA NextCounts == IInv /\ DeliveryInv /\ CountInv /\ [Next]_vars => CountInv'
<1> SUFFICES ASSUME IInv, DeliveryInv, CountInv, [Next]_vars PROVE CountInv'
  OBVIOUS
<1>1. stack \in Seq(Loops)
  BY DEF IInv, TypeOK
<1>2. \A k \in DOMAIN stack : LoopCounted(stack[k])
  BY DEF CountInv, LoopsCounted
<1>3. ASSUME NEW b \in Behaviors, Register(b) PROVE CountInv'
  BY <1>3, RegisterCounts
<1>4. ASSUME NEW e \in Events, Publish(e) PROVE CountInv'
  <2>1. PublishOn(e, stack) /\ UNCHANGED <<regs, triggers, badSpans>>
    BY <1>4 DEF Publish
  <2>2. PICK below \in Seq(Loops) : below = stack
    BY <1>1
  <2> QED
    BY <1>2, <2>1, <2>2, PublishCounts
<1>5. ASSUME NEW e \in Events, HandlerEmit(e) PROVE CountInv'
  <2> DEFINE t == [Top EXCEPT !.emits = @ + 1]
  <2>1. ~Idle /\ Top.running /\ Top \in Loops /\ Top.emits < MaxEmits /\ MaxEmits \in Nat
    BY <1>5, Innermost, BoundAssumption DEF HandlerEmit, InHandler
  <2>2. t \in Loops /\ t.n = Top.n /\ t.at = Top.at /\ t.running = Top.running
    <3>1. Top.emits + 1 \in 0 .. MaxEmits
      BY <2>1 DEF Loops
    <3> QED
      BY <2>1, <3>1 DEF Loops
  <2>3. PublishOn(e, Append(Front(stack), t)) /\ UNCHANGED <<regs, triggers, badSpans>>
    BY <1>5 DEF HandlerEmit
  <2> HIDE DEF t
  <2>4. PICK below \in Seq(Loops) : below = Append(Front(stack), t)
    BY <1>1, <2>1, <2>2, StackReplace DEF Idle
  <2>5. /\ \A k \in DOMAIN below : below[k] = t \/ \E j \in DOMAIN stack : below[k] = stack[j]
        /\ \E j \in DOMAIN stack : stack[j] = Top
    BY <2>1, <2>2, <2>4, TopReplaced
  <2>6. LoopCounted(t)
    BY <1>2, <2>2, <2>5 DEF LoopCounted
  <2>7. \A k \in DOMAIN below : LoopCounted(below[k])
    BY <1>2, <2>5, <2>6
  <2>8. ASSUME NEW i
        PROVE  Cardinality(RunningAt(below, i)) = Cardinality(RunningAt(stack, i))
    <3>1. /\ Front(stack) \in Seq(Loops)
          /\ Cardinality(RunningAt(stack, i))
               = Cardinality(RunningAt(Front(stack), i)) + One(Top.running /\ Top.at = i)
      BY <2>1, RunningTop
    <3>2. Cardinality(RunningAt(below, i))
            = Cardinality(RunningAt(Front(stack), i)) + One(t.running /\ t.at = i)
      BY <2>2, <2>4, <3>1, RunningPush
    <3> QED
      BY <2>2, <3>1, <3>2
  <2> QED
    BY <2>3, <2>4, <2>7, <2>8, PublishCounts
<1>6. ASSUME NEW i \in 1 .. MaxRegistrations, Trigger(i) PROVE CountInv'
  BY <1>6, TriggerCounts
<1>7. CASE HandlerReturn \/ HandlerRaise
  <2>1. PICK t : t = [Top EXCEPT !.running = FALSE]
    OBVIOUS
  <2>2. PICK b : b.n = Top.n /\ b.reg = Top.at
    <3>1. LET b == [n |-> Top.n, reg |-> Top.at] IN b.n = Top.n /\ b.reg = Top.at
      OBVIOUS
    <3> QED
      BY <3>1
  <2>3. /\ InHandler /\ SetTop(t) /\ UNCHANGED <<triggers, badSpans>>
        /\ \/ regs' = [regs EXCEPT ![Top.at].fires = @ + 1]
           \/ regs' = [regs EXCEPT ![Top.at].errors = @ + 1]
    BY <1>7, <2>1 DEF HandlerReturn, HandlerRaise
  <2> QED
    BY <2>1, <2>2, <2>3, HandlerEndCounts
<1>8. CASE HandlerReturnSpanRaises
  <2>1. PICK t : t = [Top EXCEPT !.running = FALSE]
    OBVIOUS
  <2>2. PICK b : b = [n |-> Top.n, reg |-> Top.at, status |-> "ok"]
    OBVIOUS
  <2>3. b.n = Top.n /\ b.reg = Top.at /\ b.status = "ok"
    BY <2>2
  <2>4. /\ InHandler /\ SetTop(t) /\ UNCHANGED triggers
        /\ badSpans' = badSpans \cup {b}
        /\ regs' = [regs EXCEPT ![Top.at].fires = @ + 1, ![Top.at].errors = @ + 1]
    BY <1>8, <2>1, <2>2 DEF HandlerReturnSpanRaises, SpanEndRaises
  <2> QED
    BY <2>1, <2>3, <2>4, HandlerEndCounts
<1>9. CASE HandlerRaiseSpanRaises
  <2>1. PICK t : t = [Top EXCEPT !.running = FALSE]
    OBVIOUS
  <2>2. PICK b : b = [n |-> Top.n, reg |-> Top.at, status |-> "error"]
    OBVIOUS
  <2>3. b.n = Top.n /\ b.reg = Top.at /\ b.status = "error"
    BY <2>2
  <2>4. /\ InHandler /\ stack' = Front(stack) /\ UNCHANGED triggers
        /\ badSpans' = badSpans \cup {b}
        /\ regs' = [regs EXCEPT ![Top.at].errors = @ + 1]
    BY <1>9, <2>2 DEF HandlerRaiseSpanRaises, SpanEndRaises
  <2> QED
    BY <2>1, <2>3, <2>4, HandlerEndCounts
<1>10. CASE LoopEnd
  <2>1. ~Idle /\ ~Top.running /\ stack' = Front(stack) /\ UNCHANGED <<regs, triggers, badSpans>>
    BY <1>10 DEF LoopEnd, Scanning
  <2>2. \A k \in DOMAIN stack' : k \in DOMAIN stack /\ stack'[k] = stack[k]
    BY <1>1, <2>1, StackPop DEF Idle
  <2>3. ASSUME NEW k \in DOMAIN stack', NEW next, next = stack'[k] PROVE LoopCounted(next)'
    <3>1. LoopCounted(next)
      BY <1>2, <2>2, <2>3
    <3> QED
      BY <2>1, <3>1, LoopStaysCounted
  <2>4. ASSUME NEW i
        PROVE  Cardinality(RunningAt(stack', i)) = Cardinality(RunningAt(stack, i))
    <3>1. /\ Cardinality(RunningAt(Front(stack), i)) \in Nat
          /\ Cardinality(RunningAt(stack, i)) = Cardinality(RunningAt(Front(stack), i)) + 0
      BY <2>1, RunningTop DEF One
    <3> QED
      BY <2>1, <3>1
  <2>5. \A i \in DOMAIN regs' :
          regs'[i].fires + regs'[i].errors + Cardinality(RunningAt(stack', i))
            = Cardinality(CallsOf(i)') + Cardinality(TwiceOf(i)')
    BY <2>1, <2>4 DEF CountInv, CallsOf, TwiceOf
  <2>6. IsFiniteSet(badSpans') /\ \A b \in badSpans' : Delivered(b.n, b.reg)'
    BY <2>1 DEF CountInv, Delivered
  <2> QED
    BY <2>3, <2>5, <2>6 DEF CountInv, LoopsCounted
<1>11. CASE UNCHANGED vars
  <2>1. UNCHANGED <<regs, stack, triggers, badSpans>>
    BY <1>11 DEF vars
  <2> QED
    BY <2>1 DEF CountInv, LoopsCounted, LoopCounted, Delivered, CallsOf, TwiceOf, RunningAt
<1> QED
  BY <1>3, <1>4, <1>5, <1>6, <1>7, <1>8, <1>9, <1>10, <1>11 DEF Next

(* fire_count and error_count account for every handler call that ended,   *)
(* once - or twice when the call returned and its span's end then raised.  *)
THEOREM RuntimeCountsAddUp == Spec => []CountsAddUp
<1>1. Init => IInv /\ DeliveryInv /\ CountInv
  <2> SUFFICES ASSUME Init PROVE DeliveryInv /\ CountInv
    BY InitInv
  <2>1. /\ published = << >> /\ triggers = << >> /\ stack = << >> /\ eventsProcessed = 0
        /\ regs = << >> /\ badSpans = {}
    BY DEF Init
  <2>2. /\ DOMAIN published = {} /\ DOMAIN triggers = {} /\ DOMAIN stack = {}
        /\ Len(published) = 0 /\ DOMAIN regs = {}
    BY <2>1, EmptySeq
  <2>3. DeliveryInv
    BY <2>1, <2>2 DEF DeliveryInv, LoopsRight, CallsRight, CallsOnce, SeenServed
  <2>4. CountInv
    BY <2>1, <2>2, FS_EmptySet DEF CountInv, LoopsCounted
  <2> QED
    BY <2>3, <2>4
<1>2. IInv /\ DeliveryInv /\ CountInv /\ [Next]_vars => IInv' /\ DeliveryInv' /\ CountInv'
  BY NextInv, NextDelivers, NextCounts
<1>3. CountInv => CountsAddUp
  BY DEF CountInv, CountsAddUp, CallsOf, RunningAt, TwiceOf
<1> QED
  BY <1>1, <1>2, <1>3, PTL DEF Spec

-----------------------------------------------------------------------------
(* The first reaction to every event is on record.                         *)

AuditRows == {AuditRow(a) : a \in AuditEntries}

Called(calls, n) == \E k \in DOMAIN calls : calls[k].n = n

(* No handler's start has been recorded since the last publish.            *)
CountUnused(rows, count) ==
  \A i \in DOMAIN rows : rows[i].type = "behavior.triggered" => rows[i].ts < count

(* A loop that has called nobody yet serves the last publish, which nobody *)
(* else has reacted to under its count.                                    *)
Untouched(loop, rows, count) ==
  loop.n = count /\ ~loop.running /\ CountUnused(rows, count)

FirstInv ==
  /\ log \in Seq(AuditRows)
  /\ \A i \in DOMAIN log : log[i].ts <= eventsProcessed
  /\ \A k \in DOMAIN stack : Called(triggers, stack[k].n) \/ Untouched(stack[k], log, eventsProcessed)
  /\ FirstReactionRecorded

(* A row's id is made of its own type, counter and run.                    *)
LEMMA RowFields ==
  ASSUME log \in Seq(AuditRows), NEW i \in DOMAIN log
  PROVE  log[i].id = <<log[i].type, log[i].ts, log[i].run>> /\ log[i].ts \in Nat
<1>1. PICK a \in AuditEntries : log[i] = AuditRow(a)
  BY StackElement DEF AuditRows
<1> QED
  BY <1>1 DEF AuditRow, EventId, AuditEntries

(* A store that takes the row or ignores it keeps the rows it has.         *)
LEMMA AppendRowKeeps ==
  ASSUME NEW row \in AuditRows, log \in Seq(AuditRows), log' = AppendRow(log, row)
  PROVE  /\ log' \in Seq(AuditRows)
         /\ \A k \in DOMAIN log : k \in DOMAIN log' /\ log'[k] = log[k]
         /\ \A k \in DOMAIN log' : (k \in DOMAIN log /\ log'[k] = log[k]) \/ log'[k] = row
         /\ \/ \E k \in DOMAIN log' : log'[k] = row
            \/ \E k \in DOMAIN log : log[k].id = row.id
<1>1. CASE row.id \in IdsIn(log)
  BY <1>1 DEF AppendRow, IdsIn
<1>2. CASE row.id \notin IdsIn(log)
  <2>1. log' = Append(log, row)
    BY <1>2 DEF AppendRow
  <2>2. /\ log' \in Seq(AuditRows)
        /\ Len(log) \in Nat
        /\ DOMAIN log = 1 .. Len(log)
        /\ DOMAIN log' = 1 .. Len(log) + 1
        /\ log'[Len(log) + 1] = row
        /\ \A k \in 1 .. Len(log) : log'[k] = log[k]
    BY <2>1, AppendProperties, LenProperties
  <2> QED
    BY <2>2
<1> QED
  BY <1>1, <1>2

(* _emit_event: what was on record or lost stays so, the new event's row   *)
(* is added unless its append fails or its id is taken.                    *)
LEMMA EmitRecords ==
  ASSUME IInv, FirstInv, NEW type \in {"behavior.triggered", "behavior.failed"},
         NEW loop \in Loops, Emit(type, loop), UNCHANGED eventsProcessed
  PROVE  /\ log' \in Seq(AuditRows)
         /\ \A i \in DOMAIN log' : log'[i].ts <= eventsProcessed'
         /\ \A i \in DOMAIN log : i \in DOMAIN log' /\ log'[i] = log[i]
         /\ \A i \in DOMAIN log' : (i \in DOMAIN log /\ log'[i] = log[i]) \/ log'[i].type = type
         /\ \A i \in lost : i \in lost' /\ history'[i] = history[i]
         /\ type = "behavior.triggered" /\ CountUnused(log, eventsProcessed) =>
              \/ \E i \in DOMAIN log' : OfCall(log'[i], [n |-> loop.n, reg |-> loop.at])
              \/ \E i \in lost' : OfCall(history'[i], [n |-> loop.n, reg |-> loop.at])
<1> DEFINE a == [type |-> type, ts |-> eventsProcessed, run |-> RunOf[loop.event],
                 reg |-> loop.at, trigger |-> loop.n]
           m == Len(history) + 1
<1>0. history \in Seq(AuditEntries) /\ lost \subseteq DOMAIN history /\ eventsProcessed \in Nat
  BY DEF IInv, TypeOK
<1>1. /\ a \in AuditEntries /\ history' = Append(history, a)
      /\ a.type = type /\ a.ts = eventsProcessed /\ a.reg = loop.at /\ a.trigger = loop.n
  BY <1>0 DEF Emit, Loops, AuditEntries
<1>2. \/ log' = AppendRow(log, AuditRow(a)) /\ lost' = lost
      \/ log' = log /\ lost' = lost \cup {Len(history')}
  BY DEF Emit
<1> HIDE DEF a
<1>3. /\ DOMAIN history = 1 .. Len(history) /\ Len(history) \in Nat
      /\ Len(history') = m
      /\ history'[m] = a
      /\ \A i \in DOMAIN history : history'[i] = history[i]
  BY <1>0, <1>1, AppendProperties, LenProperties
<1>4. PICK row \in AuditRows :
        /\ row = AuditRow(a) /\ row.type = type /\ row.ts = eventsProcessed
        /\ row.reg = loop.at /\ row.trigger = loop.n
        /\ row.id = <<row.type, row.ts, row.run>>
  <2>1. AuditRow(a) \in AuditRows
    BY <1>1 DEF AuditRows
  <2>2. /\ AuditRow(a).type = a.type /\ AuditRow(a).ts = a.ts
        /\ AuditRow(a).reg = a.reg /\ AuditRow(a).trigger = a.trigger
        /\ AuditRow(a).id = <<AuditRow(a).type, AuditRow(a).ts, AuditRow(a).run>>
    BY DEF AuditRow, EventId
  <2> QED
    BY <1>1, <2>1, <2>2
<1>5. /\ log' \in Seq(AuditRows)
      /\ \A k \in DOMAIN log : k \in DOMAIN log' /\ log'[k] = log[k]
      /\ \A k \in DOMAIN log' : (k \in DOMAIN log /\ log'[k] = log[k]) \/ log'[k] = row
      /\ \/ \E k \in DOMAIN log' : log'[k] = row
         \/ m \in lost'
         \/ \E k \in DOMAIN log : log[k].id = row.id
  <2>1. CASE log' = AppendRow(log, row)
    BY <2>1, AppendRowKeeps DEF FirstInv
  <2>2. CASE log' = log /\ lost' = lost \cup {Len(history')}
    BY <1>3, <2>2 DEF FirstInv
  <2> QED
    BY <1>2, <1>4, <2>1, <2>2
<1>6. \A i \in lost : i \in lost' /\ history'[i] = history[i]
  BY <1>0, <1>2, <1>3
<1>7. \A i \in DOMAIN log' : log'[i].ts <= eventsProcessed'
  BY <1>0, <1>4, <1>5 DEF FirstInv
<1>8. ASSUME type = "behavior.triggered", CountUnused(log, eventsProcessed)
      PROVE  \/ \E i \in DOMAIN log' : OfCall(log'[i], [n |-> loop.n, reg |-> loop.at])
             \/ \E i \in lost' : OfCall(history'[i], [n |-> loop.n, reg |-> loop.at])
  <2>1. ASSUME NEW k \in DOMAIN log, log[k].id = row.id PROVE FALSE
    <3>1. log[k].id = <<log[k].type, log[k].ts, log[k].run>> /\ log[k].ts \in Nat
      BY RowFields DEF FirstInv
    <3>2. log[k].type = "behavior.triggered" /\ log[k].ts = eventsProcessed
      BY <1>4, <1>8, <2>1, <3>1
    <3> QED
      BY <1>0, <1>8, <3>2 DEF CountUnused
  <2>2. CASE \E k \in DOMAIN log' : log'[k] = row
    BY <1>4, <1>8, <2>2 DEF OfCall
  <2>3. CASE m \in lost'
    BY <1>1, <1>3, <1>8, <2>3 DEF OfCall
  <2> QED
    BY <1>5, <2>1, <2>2, <2>3
<1> QED
  BY <1>4, <1>5, <1>6, <1>7, <1>8

(* What is recorded of the calls so far stays recorded.                    *)
LEMMA StaysRecorded ==
  ASSUME FirstReactionRecorded, UNCHANGED triggers,
         \A i \in DOMAIN log : i \in DOMAIN log' /\ log'[i] = log[i],
         \A i \in lost : i \in lost' /\ history'[i] = history[i]
  PROVE  FirstReactionRecorded'
<1> SUFFICES ASSUME NEW k \in DOMAIN triggers, \A j \in 1 .. k - 1 : triggers[j].n # triggers[k].n
             PROVE  \/ \E i \in DOMAIN log' : OfCall(log'[i], triggers[k])
                    \/ \E i \in lost' : OfCall(history'[i], triggers[k])
  BY DEF FirstReactionRecorded
<1>1. CASE \E i \in DOMAIN log : OfCall(log[i], triggers[k])
  BY <1>1
<1>2. CASE \E i \in lost : OfCall(history[i], triggers[k])
  BY <1>2
<1> QED
  BY <1>1, <1>2 DEF FirstReactionRecorded

(* A publish from below, where every loop has called somebody.             *)
LEMMA PublishFirst ==
  ASSUME IInv, FirstInv, NEW e \in Events, NEW below \in Seq(Loops), PublishOn(e, below),
         \A k \in DOMAIN below : Called(triggers, below[k].n), UNCHANGED <<triggers, auditVars>>
  PROVE  FirstInv'
<1>1. eventsProcessed \in Nat /\ eventsProcessed' = eventsProcessed + 1 /\ UNCHANGED <<log, lost, history>>
  BY DEF IInv, TypeOK, PublishOn, auditVars
<1>2. \A i \in DOMAIN log : log[i].ts \in Nat /\ log[i].ts <= eventsProcessed
  BY RowFields DEF FirstInv
<1>3. CountUnused(log', eventsProcessed') /\ \A i \in DOMAIN log' : log'[i].ts <= eventsProcessed'
  BY <1>1, <1>2 DEF CountUnused
<1>4. \A n : Called(triggers', n) <=> Called(triggers, n)
  BY DEF Called
<1>5. ASSUME NEW k \in DOMAIN stack' PROVE Called(triggers', stack'[k].n) \/ Untouched(stack'[k], log', eventsProcessed')
  <2>1. CASE stack' = below
    BY <1>4, <1>5, <2>1
  <2>2. CASE stack' = Append(below, Loop(eventsProcessed + 1, e))
    <3>1. Loop(eventsProcessed + 1, e) \in Loops
      BY <1>1, BoundAssumption DEF Loop, Loops
    <3>2. stack'[k] = Loop(eventsProcessed + 1, e) \/ (k \in DOMAIN below /\ stack'[k] = below[k])
      BY <1>5, <2>2, <3>1, StackPush
    <3>3. CASE stack'[k] = Loop(eventsProcessed + 1, e)
      BY <1>1, <1>3, <3>3 DEF Loop, Untouched
    <3> QED
      BY <1>4, <3>2, <3>3
  <2> QED
    BY <2>1, <2>2 DEF PublishOn
<1>6. FirstReactionRecorded'
  BY <1>1, StaysRecorded DEF FirstInv
<1> QED
  BY <1>1, <1>3, <1>5, <1>6 DEF FirstInv

(* The loops around the innermost one have called somebody: only a loop    *)
(* that serves the last publish may not have.                              *)
LEMMA AroundCalled ==
  ASSUME IInv, FirstInv, ~Idle
  PROVE  /\ \A k \in DOMAIN Front(stack) : Called(triggers, Front(stack)[k].n)
         /\ Front(stack) \in Seq(Loops)
         /\ Called(triggers, Top.n) \/ Untouched(Top, log, eventsProcessed)
<1>1. /\ Front(stack) \in Seq(Loops) /\ Top \in Loops
      /\ \A i \in DOMAIN Front(stack) : i \in DOMAIN stack /\ Front(stack)[i] = stack[i]
      /\ Top = stack[Len(stack)] /\ Len(stack) \in DOMAIN stack
  BY StackPop DEF IInv, TypeOK, Idle, Top
<1>2. Top.n <= eventsProcessed /\ \A k \in DOMAIN Front(stack) : Front(stack)[k].n < Top.n
  BY Innermost
<1>3. ASSUME NEW k \in DOMAIN Front(stack) PROVE Called(triggers, Front(stack)[k].n)
  <2>1. Front(stack)[k] \in Loops
    BY <1>1, StackElement
  <2>2. Front(stack)[k].n \in Nat /\ Top.n \in Nat /\ eventsProcessed \in Nat
    BY <1>1, <2>1 DEF Loops, IInv, TypeOK
  <2>3. Front(stack)[k].n # eventsProcessed
    BY <1>2, <2>2
  <2>4. Called(triggers, stack[k].n) \/ Untouched(stack[k], log, eventsProcessed)
    BY <1>1 DEF FirstInv
  <2> QED
    BY <1>1, <2>3, <2>4 DEF Untouched
<1> QED
  BY <1>1, <1>3 DEF FirstInv

(* The innermost loop moves on or is left; all loops have called somebody. *)
LEMMA AllCalled ==
  ASSUME IInv, FirstInv, ~Idle, UNCHANGED <<eventsProcessed, triggers>>, Called(triggers, Top.n),
         \/ stack' = Front(stack)
         \/ \E e \in Loops : e.n = Top.n /\ SetTop(e)
  PROVE  \A k \in DOMAIN stack' : Called(triggers', stack'[k].n)
<1>1. \A n : Called(triggers', n) <=> Called(triggers, n)
  BY DEF Called
<1>2. CASE stack' = Front(stack)
  BY <1>1, <1>2, AroundCalled
<1>3. CASE \E e \in Loops : e.n = Top.n /\ SetTop(e)
  <2>1. PICK e \in Loops : e.n = Top.n /\ stack' = Append(Front(stack), e)
    BY <1>3 DEF SetTop
  <2>2. \A k \in DOMAIN stack' : stack'[k] = e \/ (k \in DOMAIN Front(stack) /\ stack'[k] = Front(stack)[k])
    BY <2>1, AroundCalled, StackPush
  <2> QED
    BY <1>1, <2>1, <2>2, AroundCalled
<1> QED
  BY <1>2, <1>3

(* The first call of a loop finds its count unused, a later one is not the *)
(* first.                                                                  *)
LEMMA TriggerFirst ==
  ASSUME IInv, FirstInv, NEW i \in 1 .. MaxRegistrations, Trigger(i)
  PROVE  FirstInv'
<1> DEFINE loop == [Top EXCEPT !.at = i, !.running = TRUE, !.emits = 0]
           call == [n |-> Top.n, reg |-> i]
<1>1. ~Idle /\ Top \in Loops /\ i \in Nat /\ 0 \in 0 .. MaxEmits
  BY Innermost, BoundAssumption DEF Trigger, Scanning
<1>2. loop \in Loops /\ loop.n = Top.n /\ loop.at = i
  BY <1>1 DEF Loops
<1>3. /\ SetTop(loop) /\ Emit("behavior.triggered", loop)
      /\ triggers' = Append(triggers, call) /\ UNCHANGED eventsProcessed
  BY DEF Trigger
<1> HIDE DEF loop
<1>4. /\ log' \in Seq(AuditRows)
      /\ \A j \in DOMAIN log' : log'[j].ts <= eventsProcessed'
      /\ \A j \in DOMAIN log : j \in DOMAIN log' /\ log'[j] = log[j]
      /\ \A j \in lost : j \in lost' /\ history'[j] = history[j]
      /\ CountUnused(log, eventsProcessed) =>
           \/ \E j \in DOMAIN log' : OfCall(log'[j], call)
           \/ \E j \in lost' : OfCall(history'[j], call)
  BY <1>2, <1>3, EmitRecords
<1>5. PICK l \in Nat : /\ DOMAIN triggers = 1 .. l /\ DOMAIN triggers' = 1 .. (l + 1)
                       /\ triggers'[l + 1] = call /\ call.n = Top.n
                       /\ \A k \in 1 .. l : triggers'[k] = triggers[k]
  <2>1. PICK C : triggers \in Seq(C) /\ call \in C
    <3>1. call \in [n : Nat \ {0}, reg : Nat \ {0}]
      BY <1>1 DEF Loops
    <3> QED
      BY <3>1 DEF IInv, TypeOK
  <2> QED
    BY <1>3, <2>1, AppendProperties, LenProperties
<1> HIDE DEF call
<1>6. \A n : Called(triggers, n) => Called(triggers', n)
  BY <1>5 DEF Called
<1>7. \A k \in DOMAIN stack' : Called(triggers', stack'[k].n)
  <2> TAKE k \in DOMAIN stack'
  <2>1. stack'[k] = loop \/ (k \in DOMAIN Front(stack) /\ stack'[k] = Front(stack)[k])
    BY <1>2, <1>3, AroundCalled, <1>1, StackPush DEF SetTop
  <2>2. CASE stack'[k] = loop
    <3>1. l + 1 \in DOMAIN triggers' /\ triggers'[l + 1].n = stack'[k].n
      BY <1>2, <1>5, <2>2
    <3> QED
      BY <3>1 DEF Called
  <2>3. CASE k \in DOMAIN Front(stack) /\ stack'[k] = Front(stack)[k]
    BY <1>1, <1>6, <2>3, AroundCalled
  <2> QED
    BY <2>1, <2>2, <2>3
<1>8. ASSUME NEW k \in DOMAIN triggers', \A j \in 1 .. k - 1 : triggers'[j].n # triggers'[k].n
      PROVE  \/ \E j \in DOMAIN log' : OfCall(log'[j], triggers'[k])
             \/ \E j \in lost' : OfCall(history'[j], triggers'[k])
  <2>1. CASE k \in 1 .. l
    <3>1. /\ k \in DOMAIN triggers /\ triggers'[k] = triggers[k]
          /\ \A j \in 1 .. k - 1 : triggers[j].n # triggers[k].n
      BY <1>5, <1>8, <2>1
    <3>2. \/ \E j \in DOMAIN log : OfCall(log[j], triggers[k])
          \/ \E j \in lost : OfCall(history[j], triggers[k])
      BY <3>1 DEF FirstInv, FirstReactionRecorded
    <3> QED
      BY <1>4, <3>1, <3>2
  <2>2. CASE k = l + 1
    <3>1. ~Called(triggers, Top.n)
      BY <1>5, <1>8, <2>2 DEF Called
    <3>2. CountUnused(log, eventsProcessed)
      BY <1>1, <3>1, AroundCalled DEF Untouched
    <3> QED
      BY <1>4, <1>5, <2>2, <3>2
  <2> QED
    BY <1>5, <2>1, <2>2
<1>9. FirstReactionRecorded'
  BY <1>8 DEF FirstReactionRecorded
<1> QED
  BY <1>4, <1>7, <1>9 DEF FirstInv

(* The handler ends, in one of its four ways; it was called.               *)
LEMMA HandlerEndFirst ==
  ASSUME IInv, FirstInv, InHandler, UNCHANGED <<eventsProcessed, triggers>>,
         UNCHANGED auditVars \/ Emit("behavior.failed", Top),
         stack' = Front(stack) \/ SetTop([Top EXCEPT !.running = FALSE])
  PROVE  FirstInv'
<1>1. ~Idle /\ Top.running /\ Top \in Loops
  BY Innermost DEF InHandler
<1>2. [Top EXCEPT !.running = FALSE] \in Loops /\ [Top EXCEPT !.running = FALSE].n = Top.n
  BY <1>1 DEF Loops
<1>3. Called(triggers, Top.n)
  BY <1>1, AroundCalled DEF Untouched
<1>4. \A k \in DOMAIN stack' : Called(triggers', stack'[k].n)
  BY <1>1, <1>2, <1>3, AllCalled
<1>5. /\ log' \in Seq(AuditRows)
      /\ \A j \in DOMAIN log' : log'[j].ts <= eventsProcessed'
      /\ \A j \in DOMAIN log : j \in DOMAIN log' /\ log'[j] = log[j]
      /\ \A j \in lost : j \in lost' /\ history'[j] = history[j]
  <2>1. CASE UNCHANGED auditVars
    BY <2>1 DEF auditVars, FirstInv
  <2>2. CASE Emit("behavior.failed", Top)
    BY <1>1, <2>2, EmitRecords
  <2> QED
    BY <2>1, <2>2
<1>6. FirstReactionRecorded'
  BY <1>5, StaysRecorded DEF FirstInv
<1> QED
  BY <1>4, <1>5, <1>6 DEF FirstInv

(* Every step keeps it, one step of the proof per action.                  *)
LEMMA NextFirst == IInv /\ FirstInv /\ [Next]_vars => FirstInv'
<1> SUFFICES ASSUME IInv, FirstInv, [Next]_vars PROVE FirstInv'
  OBVIOUS
<1>1. ASSUME UNCHANGED <<eventsProcessed, stack, triggers, log, history, lost>> PROVE FirstInv'
  BY <1>1 DEF FirstInv, FirstReactionRecorded, Called, Untouched, CountUnused
<1>2. ASSUME NEW b \in Behaviors, Register(b) PROVE FirstInv'
  BY <1>1, <1>2 DEF Register
<1>3. ASSUME NEW e \in Events, Publish(e) PROVE FirstInv'
  <2>1. PublishOn(e, stack) /\ UNCHANGED <<triggers, auditVars>> /\ stack \in Seq(Loops)
    BY <1>3 DEF Publish, auditVars, IInv, TypeOK
  <2>2. DOMAIN stack = {}
    BY <1>3, EmptySeq DEF Publish, Idle
  <2> QED
    BY <2>1, <2>2, PublishFirst
<1>4. ASSUME NEW e \in Events, HandlerEmit(e) PROVE FirstInv'
  <2> DEFINE t == [Top EXCEPT !.emits = @ + 1]
  <2>1. ~Idle /\ Top.running /\ Top \in Loops /\ Top.emits < MaxEmits /\ MaxEmits \in Nat
    BY <1>4, Innermost, BoundAssumption DEF HandlerEmit, InHandler
  <2>2. t \in Loops /\ t.n = Top.n
    <3>1. Top.emits + 1 \in 0 .. MaxEmits
      BY <2>1 DEF Loops
    <3> QED
      BY <2>1, <3>1 DEF Loops
  <2>3. PublishOn(e, Append(Front(stack), t)) /\ UNCHANGED <<triggers, auditVars>>
    BY <1>4 DEF HandlerEmit, auditVars
  <2> HIDE DEF t
  <2>4. Called(triggers, Top.n)
    BY <2>1, AroundCalled DEF Untouched
  <2>5. PICK below \in Seq(Loops) : below = Append(Front(stack), t)
    BY <2>1, <2>2, StackReplace DEF IInv, TypeOK, Idle
  <2>6. ASSUME NEW k \in DOMAIN below PROVE Called(triggers, below[k].n)
    <3>1. below[k] = t \/ (k \in DOMAIN Front(stack) /\ below[k] = Front(stack)[k])
      BY <2>1, <2>2, <2>5, <2>6, AroundCalled, StackPush
    <3> QED
      BY <2>1, <2>2, <2>4, <3>1, AroundCalled
  <2> QED
    BY <2>3, <2>5, <2>6, PublishFirst
<1>5. ASSUME NEW i \in 1 .. MaxRegistrations, Trigger(i) PROVE FirstInv'
  BY <1>5, TriggerFirst
<1>6. CASE HandlerReturn
  BY <1>6, HandlerEndFirst DEF HandlerReturn, auditVars
<1>7. CASE HandlerRaise \/ HandlerReturnSpanRaises \/ HandlerRaiseSpanRaises
  BY <1>7, HandlerEndFirst DEF HandlerRaise, HandlerReturnSpanRaises, HandlerRaiseSpanRaises
<1>8. CASE LoopEnd
  <2>1. ~Idle /\ stack' = Front(stack) /\ UNCHANGED <<eventsProcessed, triggers, log, history, lost>>
    BY <1>8 DEF LoopEnd, Scanning
  <2>2. \A k \in DOMAIN stack' : Called(triggers', stack'[k].n)
    BY <2>1, AroundCalled DEF Called
  <2> QED
    BY <2>1, <2>2, StaysRecorded DEF FirstInv
<1>9. CASE UNCHANGED vars
  BY <1>1, <1>9 DEF vars
<1> QED
  BY <1>2, <1>3, <1>4, <1>5, <1>6, <1>7, <1>8, <1>9 DEF Next

(* The first call of a handler for each event is on record unless its      *)
(* append failed: _dispatch is depth-first and _emit_event reads the live  *)
(* counter, so the start of the first handler for an event is recorded     *)
(* under a count that no other event's reaction has used.                  *)
THEOREM RuntimeRecordsFirstReaction == Spec => []FirstReactionRecorded
<1>1. Init => IInv /\ FirstInv
  BY InitInv, EmptySeq DEF Init, FirstInv, FirstReactionRecorded
<1>2. IInv /\ FirstInv /\ [Next]_vars => IInv' /\ FirstInv'
  BY NextInv, NextFirst
<1>3. FirstInv => FirstReactionRecorded
  BY DEF FirstInv
<1> QED
  BY <1>1, <1>2, <1>3, PTL DEF Spec
=============================================================================

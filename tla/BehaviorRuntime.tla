-------------------------- MODULE BehaviorRuntime ---------------------------
(***************************************************************************)
(* The reactive engine: InMemoryBehaviorRuntime and its audited subclass   *)
(* EventEmittingBehaviorRuntime.  Published events are dispatched at once  *)
(* to the registered behaviors whose matcher accepts them; a handler may   *)
(* publish in turn (context.emit is publish), register behaviors, return   *)
(* or raise, so the runtime is a stack of dispatch loops on one thread.    *)
(*                                                                         *)
(* Publish number n is the one that brought events_processed to n.         *)
(***************************************************************************)
EXTENDS EventLog, FiniteSets

CONSTANTS
  Events,            (* kinds of event: a type with a payload and a run    *)
  RunOf,             (* RunOf[e]: its run_id                               *)
  Behaviors,
  Accepts,           (* Accepts[b]: the events b's EventMatcher matches    *)
  ActivateAfter,     (* ActivateAfter[b]                                   *)
  Emits,             (* Emits[b]: what b's handler may publish             *)
  MaxDepth,          (* max_depth                                          *)
  MaxRegistrations,  (* bound: calls of register                           *)
  MaxEvents,         (* bound: none is published from outside any handler  *)
                     (* once this many events were                         *)
  MaxEmits,          (* bound: publishes by one call of a handler          *)
  MaxRaises,         (* bound: handlers that raise, bad span ends aside    *)
  MaxStoreFailures,  (* bound: appends the store fails                     *)
  MaxClockSteps      (* bound: spans the wall clock steps back under       *)

ASSUME SubscriptionAssumption ==
  /\ DOMAIN RunOf = Events
  /\ Accepts \in [Behaviors -> SUBSET Events]
  /\ ActivateAfter \in [Behaviors -> Nat]
  /\ Emits \in [Behaviors -> SUBSET Events]
ASSUME BoundAssumption ==
  {MaxDepth, MaxRegistrations, MaxEvents, MaxEmits, MaxRaises,
   MaxStoreFailures, MaxClockSteps} \subseteq Nat

VARIABLES
  regs,             (* _registrations, with fire_count and error_count     *)
  eventsProcessed,  (* _events_processed                                   *)
  depth,            (* _current_depth                                      *)
  stack,            (* the dispatch loops in progress, innermost last      *)
  openSpans,        (* trace spans started and not ended                   *)
  badSpans,         (* spans lost because their end precedes their start   *)
  log,              (* the event store                                     *)
  publishes,        (* publishes from outside so far                       *)
  published,        (* ghost: publish n's event, whether it was dropped at *)
                    (* max_depth, and the registrations its loop has seen  *)
  triggers,         (* ghost: handler calls, as [n, reg]                   *)
  history,          (* ghost: every audit event emitted                    *)
  lost              (* ghost: positions in history whose append failed     *)

auditVars == <<log, history, lost>>
vars == <<regs, eventsProcessed, depth, stack, openSpans, badSpans, log, publishes,
          published, triggers, history, lost>>

(* A dispatch loop: the publish it serves, the registration it is at, how  *)
(* often that handler has emitted, and whether the handler is running.     *)
Loop(n, e) == [n |-> n, event |-> e, at |-> 0, emits |-> 0, running |-> FALSE]

Init ==
  /\ regs = << >>
  /\ eventsProcessed = 0
  /\ depth = 0
  /\ stack = << >>
  /\ openSpans = {}
  /\ badSpans = {}
  /\ log = << >>
  /\ publishes = 0
  /\ published = << >>
  /\ triggers = << >>
  /\ history = << >>
  /\ lost = {}

Idle == stack = << >>
Top == Last(stack)
InHandler == ~Idle /\ Top.running
Scanning == ~Idle /\ ~Top.running

(* Replace the innermost loop.                                             *)
SetTop(loop) == stack' = Append(Front(stack), loop)

-----------------------------------------------------------------------------
(* _emit_event: the id is type, live event counter and run.                *)
(* Mutant: the counter is left out of the id.                              *)
EventIdByRun(type, n, run) == <<type, run>>

EventId(type, n, run) == <<type, n, run>>

AuditRow(a) ==
  [id |-> EventId(a.type, a.ts, a.run), type |-> a.type, run |-> a.run, ts |-> a.ts,
   reg |-> a.reg, trigger |-> a.trigger]

Emit(type, loop) ==
  LET a == [type |-> type, ts |-> eventsProcessed, run |-> RunOf[loop.event],
            reg |-> loop.at, trigger |-> loop.n]
  IN  /\ history' = Append(history, a)
      /\ \/ /\ log' = AppendRow(log, AuditRow(a))
            /\ lost' = lost
         \/ /\ Cardinality(lost) < MaxStoreFailures
            /\ log' = log
            /\ lost' = lost \cup {Len(history')}

-----------------------------------------------------------------------------
(* register: also from a handler, and then loops in progress see it.       *)
Register(b) ==
  /\ Idle \/ InHandler
  /\ Len(regs) < MaxRegistrations
  /\ regs' = Append(regs, [behavior |-> b, fires |-> 0, errors |-> 0])
  /\ UNCHANGED <<eventsProcessed, depth, stack, openSpans, badSpans, publishes, published,
                 triggers, log, history, lost>>

(* publish on a given stack: the event is counted, then dropped if the     *)
(* nesting is at max_depth, else a loop starts over the registrations.     *)
PublishOn(e, below) ==
  LET n == eventsProcessed + 1
      dropped == depth >= MaxDepth
  IN  /\ eventsProcessed' = n
      /\ published' = Append(published, [event |-> e, dropped |-> dropped, seen |-> 0])
      /\ stack' = IF dropped THEN below ELSE Append(below, Loop(n, e))
      /\ depth' = IF dropped THEN depth ELSE depth + 1

(* publish called from outside any handler.                                *)
Publish(e) ==
  /\ Idle
  /\ eventsProcessed < MaxEvents
  /\ publishes' = publishes + 1
  /\ PublishOn(e, stack)
  /\ UNCHANGED <<regs, openSpans, badSpans, triggers, log, history, lost>>

(* context.emit called by the running handler.                             *)
HandlerEmit(e) ==
  /\ InHandler
  /\ Top.emits < MaxEmits
  /\ e \in Emits[regs[Top.at].behavior]
  /\ PublishOn(e, Append(Front(stack), [Top EXCEPT !.emits = @ + 1]))
  /\ UNCHANGED <<regs, openSpans, badSpans, publishes, triggers, log, history, lost>>

-----------------------------------------------------------------------------
(* The dispatch loop: `for reg in self._registrations`, over the live list *)
(* and with the live event counter.                                        *)

(* Mutant: a strict comparison in should_activate.                         *)
ShouldActivateStrict(b) == eventsProcessed > ActivateAfter[b]

ShouldActivate(b) == eventsProcessed >= ActivateAfter[b]

Fires(i, e) ==
  /\ ShouldActivate(regs[i].behavior)
  /\ e \in Accepts[regs[i].behavior]

IsNext(i) ==
  /\ i \in Top.at + 1 .. Len(regs)
  /\ Fires(i, Top.event)
  /\ \A j \in Top.at + 1 .. i - 1 : ~Fires(j, Top.event)

(* Go on to the next registration that fires: emit behavior.triggered,     *)
(* open the span, call the handler.                                        *)
Trigger(i) ==
  /\ Scanning
  /\ IsNext(i)
  /\ LET loop == [Top EXCEPT !.at = i, !.running = TRUE, !.emits = 0]
     IN  SetTop(loop) /\ Emit("behavior.triggered", loop)
  /\ openSpans' = openSpans \cup {<<Top.n, i>>}
  /\ triggers' = Append(triggers, [n |-> Top.n, reg |-> i])
  /\ UNCHANGED <<regs, eventsProcessed, depth, badSpans, publishes, published>>

(* The handler returns: fire_count, end_span("ok").                        *)
HandlerReturn ==
  /\ InHandler
  /\ regs' = [regs EXCEPT ![Top.at].fires = @ + 1]
  /\ openSpans' = openSpans \ {<<Top.n, Top.at>>}
  /\ SetTop([Top EXCEPT !.running = FALSE])
  /\ UNCHANGED <<eventsProcessed, depth, badSpans, publishes, published, triggers, log,
                 history, lost>>

RaisesLeft ==
  Cardinality({k \in DOMAIN history : history[k].type = "behavior.failed"})
    < MaxRaises + Cardinality(badSpans)

(* Mutants: the failed call is counted as a firing too; its span is left   *)
(* open.                                                                   *)
HandlerRaiseCountsBoth ==
  /\ InHandler
  /\ RaisesLeft
  /\ regs' = [regs EXCEPT ![Top.at].fires = @ + 1, ![Top.at].errors = @ + 1]
  /\ Emit("behavior.failed", Top)
  /\ openSpans' = openSpans \ {<<Top.n, Top.at>>}
  /\ SetTop([Top EXCEPT !.running = FALSE])
  /\ UNCHANGED <<eventsProcessed, depth, badSpans, publishes, published, triggers>>

HandlerRaiseLeaksSpan ==
  /\ InHandler
  /\ RaisesLeft
  /\ regs' = [regs EXCEPT ![Top.at].errors = @ + 1]
  /\ Emit("behavior.failed", Top)
  /\ SetTop([Top EXCEPT !.running = FALSE])
  /\ UNCHANGED <<eventsProcessed, depth, openSpans, badSpans, publishes, published, triggers>>

(* The handler raises: error_count, behavior.failed, end_span("error");    *)
(* the loop goes on with the next registration.                            *)
HandlerRaise ==
  /\ InHandler
  /\ RaisesLeft
  /\ regs' = [regs EXCEPT ![Top.at].errors = @ + 1]
  /\ Emit("behavior.failed", Top)
  /\ openSpans' = openSpans \ {<<Top.n, Top.at>>}
  /\ SetTop([Top EXCEPT !.running = FALSE])
  /\ UNCHANGED <<eventsProcessed, depth, badSpans, publishes, published, triggers>>

(* end_span builds a TraceEnvelope, which refuses an ended_at before the   *)
(* started_at: when the wall clock stepped back under a handler, end_span  *)
(* drops the span and raises.                                              *)
SpanEndRaises(status) ==
  /\ Cardinality(badSpans) < MaxClockSteps
  /\ badSpans' = badSpans \cup {[n |-> Top.n, reg |-> Top.at, status |-> status]}
  /\ openSpans' = openSpans \ {<<Top.n, Top.at>>}

(* After a handler that returned, the call is in the `try`: it now counts  *)
(* as a failure too, and the second end_span finds no span.                *)
HandlerReturnSpanRaises ==
  /\ InHandler
  /\ SpanEndRaises("ok")
  /\ regs' = [regs EXCEPT ![Top.at].fires = @ + 1, ![Top.at].errors = @ + 1]
  /\ Emit("behavior.failed", Top)
  /\ SetTop([Top EXCEPT !.running = FALSE])
  /\ UNCHANGED <<eventsProcessed, depth, publishes, published, triggers>>

(* After a handler that raised, the call is in the `except`: the exception *)
(* leaves the loop and, through publish's `finally`, the publish, into the *)
(* handler that emitted the event.                                         *)
HandlerRaiseSpanRaises ==
  /\ InHandler
  /\ SpanEndRaises("error")
  /\ regs' = [regs EXCEPT ![Top.at].errors = @ + 1]
  /\ Emit("behavior.failed", Top)
  /\ stack' = Front(stack)
  /\ depth' = depth - 1
  /\ published' = [published EXCEPT ![Top.n].seen = Top.at]
  /\ UNCHANGED <<eventsProcessed, publishes, triggers>>

(* The loop is through: publish leaves its `finally` and returns to the    *)
(* handler that emitted the event, or outside.                             *)
LoopEnd ==
  /\ Scanning
  /\ \A i \in Top.at + 1 .. Len(regs) : ~Fires(i, Top.event)
  /\ stack' = Front(stack)
  /\ depth' = depth - 1
  /\ published' = [published EXCEPT ![Top.n].seen = Len(regs)]
  /\ UNCHANGED <<regs, eventsProcessed, openSpans, badSpans, publishes, triggers, log,
                 history, lost>>

Next ==
  \/ \E b \in Behaviors : Register(b)
  \/ \E e \in Events : Publish(e) \/ HandlerEmit(e)
  \/ \E i \in 1 .. MaxRegistrations : Trigger(i)
  \/ HandlerReturn
  \/ HandlerRaise
  \/ HandlerReturnSpanRaises
  \/ HandlerRaiseSpanRaises
  \/ LoopEnd

Spec == Init /\ [][Next]_vars

-----------------------------------------------------------------------------
(* Properties.                                                             *)

Registrations == [behavior : Behaviors, fires : Nat, errors : Nat]
Loops == [n : Nat \ {0}, event : Events, at : Nat, emits : 0 .. MaxEmits, running : BOOLEAN]
Publications == [event : Events, dropped : BOOLEAN, seen : Nat]
AuditEntries ==
  [type : {"behavior.triggered", "behavior.failed"}, ts : Nat, run : {RunOf[e] : e \in Events},
   reg : Nat, trigger : Nat \ {0}]

(* Types of the runtime's state; the nesting never exceeds max_depth.      *)
TypeOK ==
  /\ regs \in Seq(Registrations)
  /\ eventsProcessed \in Nat
  /\ depth \in 0 .. MaxDepth
  /\ stack \in Seq(Loops)
  /\ badSpans \subseteq [n : Nat \ {0}, reg : Nat \ {0}, status : {"ok", "error"}]
  /\ publishes \in Nat
  /\ published \in Seq(Publications)
  /\ triggers \in Seq([n : Nat \ {0}, reg : Nat \ {0}])
  /\ history \in Seq(AuditEntries)
  /\ lost \subseteq DOMAIN history

(* However handlers nest, fail and register: the depth counter is the      *)
(* nesting, which max_depth bounds, and the open trace spans are those of  *)
(* the handlers that are running.  In particular nothing is left over once *)
(* publish returns.                                                        *)
Balanced ==
  /\ depth = Len(stack) /\ depth <= MaxDepth
  /\ openSpans = {<<stack[k].n, stack[k].at>> : k \in {j \in DOMAIN stack : stack[j].running}}

TriggersOf(n, i) == Cardinality({k \in DOMAIN triggers : triggers[k] = [n |-> n, reg |-> i]})

InProgress(n) == \E k \in DOMAIN stack : stack[k].n = n

(* When a dispatch loop is through, every registration that matches its event and was *)
(* active when it was published has had its handler called exactly once    *)
(* for it - the ones registered meanwhile too - and no handler is ever     *)
(* called twice for it or for an event it does not match.  A loop that an  *)
(* exception leaves has delivered to those it passed.                      *)
DeliveredOnce ==
  \A n \in DOMAIN published :
    LET p == published[n]
    IN  /\ \A i \in DOMAIN regs :
             /\ TriggersOf(n, i) <= 1
             /\ TriggersOf(n, i) = 1 => ~p.dropped /\ p.event \in Accepts[regs[i].behavior]
        /\ ~p.dropped /\ ~InProgress(n) =>
             \A i \in 1 .. p.seen :
               /\ p.event \in Accepts[regs[i].behavior]
               /\ ActivateAfter[regs[i].behavior] <= n
               => TriggersOf(n, i) = 1

(* fire_count and error_count account for every handler call that ended,   *)
(* once - or twice when the call returned and then its span's end raised.  *)
CountsAddUp ==
  \A i \in DOMAIN regs :
    LET calls == Cardinality({k \in DOMAIN triggers : triggers[k].reg = i})
        running == Cardinality({k \in DOMAIN stack : stack[k].running /\ stack[k].at = i})
        twice == Cardinality({s \in badSpans : s.reg = i /\ s.status = "ok"})
    IN  regs[i].fires + regs[i].errors + running = calls + twice

(* Whatever has reacted to an event, the first call of a handler for it is *)
(* on record, unless its append failed: dispatch is depth-first and reads  *)
(* the live counter, so no other event has used that count yet.  That is   *)
(* less than "emit GraphEvents for every reactive operation": the counter  *)
(* in the id moves once per publish, so a second reaction to one event is  *)
(* dropped as a duplicate (see the findings).                              *)
OfCall(a, call) ==
  a.type = "behavior.triggered" /\ a.trigger = call.n /\ a.reg = call.reg

FirstReactionRecorded ==
  \A k \in DOMAIN triggers :
    (\A j \in 1 .. k - 1 : triggers[j].n # triggers[k].n) =>
      \/ \E i \in DOMAIN log : OfCall(log[i], triggers[k])
      \/ \E i \in lost : OfCall(history[i], triggers[k])

(* "Handler exceptions are caught, logged, and counted - the runtime       *)
(* continues dispatching to other behaviors": publish returns only when no *)
(* later registration is left to fire.  It fails when the end of a failed  *)
(* handler's span raises (see the findings).                               *)
DispatchGoesOn ==
  [][Len(stack') < Len(stack) =>
       \A i \in Top.at + 1 .. Len(regs) : ~Fires(i, Top.event)]_vars
=============================================================================

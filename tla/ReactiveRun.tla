---------------------------- MODULE ReactiveRun -----------------------------
(***************************************************************************)
(* A sandbox run with its events: ReactiveSandboxAgentRunner around        *)
(* SandboxAgentRunner, whose reasoning engine is PlainLLMStrategy with an  *)
(* LLM cache, under the budget of a ReactiveFrame.                         *)
(*                                                                         *)
(* The outer runner publishes each lifecycle event to the behaviors first  *)
(* and appends it to the event store afterwards; the audited runtime       *)
(* appends what its behaviors did to the same store.  Cache and store      *)
(* outlive the process, everything else starts over with it.  What the     *)
(* behaviors do beyond that is module BehaviorRuntime's.                   *)
(***************************************************************************)
EXTENDS EventLog, FiniteSets

CONSTANTS
  Models,
  Texts,       (* candidates a provider may answer with                    *)
  Passing,     (* those the verifier scores 1.0                            *)
  NoText,      (* of a model the cache has no answer of                    *)
  MaxLLMCalls, (* the frame's max_llm_calls                                *)
  MaxCalls,    (* bound: calls of run                                      *)
  MaxEffects,  (* bound: events a behavior reacts to                       *)
  MaxFailures, (* bound: appends the store fails                           *)
  MaxRestarts  (* bound: ends of the process                               *)

ASSUME TextAssumption == Passing \subseteq Texts /\ NoText \notin Texts
ASSUME BoundAssumption == {MaxLLMCalls, MaxCalls, MaxEffects, MaxFailures, MaxRestarts} \subseteq Nat

VARIABLES
  call,      (* the call of run in progress                                *)
  counter,   (* _counter of the inner runner                               *)
  used,      (* the frame budget's llm_calls_used                          *)
  processed, (* the runtime's events_processed                             *)
  spans,     (* runs whose agent.run span is open                          *)
  cache,     (* cache[m]: the answer recorded for the prompt to m          *)
  store,     (* the event store                                            *)
  process,   (* restarts so far                                            *)
  calls,     (* calls of run so far                                        *)
  spent,     (* ghost: calls of the provider in this process               *)
  ended,     (* ghost: how each run of the inner runner ended              *)
  lost       (* ghost: ids of events published but never appended, for     *)
             (* the append failed or the process ended first               *)

vars == <<call, counter, used, processed, spans, cache, store, process, calls, spent,
          ended, lost>>
ghosts == <<spent, ended, lost>>

NoCall == [pc |-> "idle", model |-> NoText, todo |-> << >>, delivered |-> FALSE,
           started |-> 0, run |-> 0, text |-> NoText]

Init ==
  /\ call = NoCall
  /\ counter = 0 /\ used = 0 /\ processed = 0 /\ process = 0 /\ calls = 0 /\ spent = 0
  /\ spans = {}
  /\ cache = [m \in Models |-> NoText]
  /\ store = << >>
  /\ ended = << >>
  /\ lost = {}

-----------------------------------------------------------------------------
(* _publish.  The id is type, run and the inner runner's counter.          *)
Outer == <<"reactive", call.model>>
Inner(k) == <<"run", k>>

Event(type, run) == [id |-> <<type, run, counter>>, type |-> type, run |-> run,
                     ts |-> counter, cause |-> << >>]

Publishing == call.todo # << >>
At(pc) == ~Publishing /\ call.pc = pc

(* The runtime counts the event; a behavior that reacts is audited.  What  *)
(* the runtime raises is caught.                                           *)
Effect(e) == [id |-> <<"behavior.triggered", e.run, processed + 1>>, type |-> "behavior.triggered",
              run |-> e.run, ts |-> processed + 1, cause |-> e.id]

Deliver ==
  /\ Publishing /\ ~call.delivered
  /\ processed' = processed + 1
  /\ \/ store' = store
     \/ /\ Cardinality({r \in Range(store) : r.type = "behavior.triggered"}) < MaxEffects
        /\ store' = AppendRow(store, Effect(Head(call.todo)))
  /\ call' = [call EXCEPT !.delivered = TRUE]
  /\ UNCHANGED <<counter, used, spans, cache, process, calls, ghosts>>

(* Mutant: delivery and append share a try, so an exception of the runtime *)
(* skips the append.                                                       *)
PersistInSameTry ==
  /\ Publishing /\ call.delivered
  /\ call' = [call EXCEPT !.todo = Tail(@), !.delivered = FALSE]
  /\ store' \in {store, AppendRow(store, Head(call.todo))}
  /\ UNCHANGED <<counter, used, processed, spans, cache, process, calls, ghosts>>

Persist ==
  /\ Publishing /\ call.delivered
  /\ call' = [call EXCEPT !.todo = Tail(@), !.delivered = FALSE]
  /\ \/ store' = AppendRow(store, Head(call.todo)) /\ lost' = lost
     \/ /\ Cardinality(lost) < MaxFailures
        /\ store' = store
        /\ lost' = lost \cup {Head(call.todo).id}
  /\ UNCHANGED <<counter, used, processed, spans, cache, process, calls, spent, ended>>

-----------------------------------------------------------------------------
(* ReactiveSandboxAgentRunner.run                                          *)
Call(m) ==
  /\ At("idle") /\ calls < MaxCalls
  /\ calls' = calls + 1
  /\ call' = [NoCall EXCEPT !.pc = "check", !.model = m, !.started = counter,
                            !.todo = <<Event("run.started", <<"reactive", m>>)>>]
  /\ UNCHANGED <<counter, used, processed, spans, cache, store, process, ghosts>>

(* FrameBudget.is_exhausted; the other two limits are never counted on.    *)
IsExhausted == used >= MaxLLMCalls

(* The result it returns holds a loop just started, in state RUNNING.      *)
Refuse ==
  /\ At("check") /\ IsExhausted
  /\ call' = [call EXCEPT !.pc = "return", !.todo = <<Event("frame.exhausted", Outer)>>]
  /\ UNCHANGED <<counter, used, processed, spans, cache, store, process, calls, ghosts>>

(* Mutant: a call returns once its last event is on record.                *)
ReturnWaitsForStore ==
  /\ At("return")
  /\ \E r \in Range(store) : r.run = Outer /\ r.type \in {"frame.exhausted", "run.failed"}
  /\ call' = NoCall
  /\ UNCHANGED <<counter, used, processed, spans, cache, store, process, calls, ghosts>>

Return ==
  /\ At("return")
  /\ call' = NoCall
  /\ UNCHANGED <<counter, used, processed, spans, cache, store, process, calls, ghosts>>

-----------------------------------------------------------------------------
(* SandboxAgentRunner.run                                                  *)
(* The run id is a uuid: fresh, here the number of the run.                *)
Delegate ==
  /\ At("check") /\ ~IsExhausted
  /\ counter' = counter + 1
  /\ spans' = spans \cup {Len(ended) + 1}
  /\ call' = [call EXCEPT !.pc = "forward", !.run = Len(ended) + 1]
  /\ UNCHANGED <<used, processed, cache, store, process, calls, ghosts>>

Ended(how) ==
  ended' = Append(ended, [model |-> call.model, run |-> call.run, process |-> process,
                          started |-> call.started, how |-> how])

(* The run raised: run.failed, then the exception goes on to the caller.   *)
InnerRaises ==
  /\ Ended("raised")
  /\ call' = [call EXCEPT !.pc = "return", !.todo = <<Event("run.failed", Outer)>>]
  /\ used' = used

(* Mutant: a run that did not succeed is not charged.                      *)
InnerReturnsFree(how) ==
  /\ Ended(how)
  /\ used' = IF how = "done" THEN used + 1 ELSE used
  /\ call' = [call EXCEPT !.pc = "trajectory", !.todo =
       <<Event("verify.completed", Inner(call.run)),
         Event(IF how = "done" THEN "run.succeeded" ELSE "run.failed_verification",
               Inner(call.run))>>]

(* It returned a DONE loop, or a FAILED one: the budget is charged and the *)
(* verdict published.                                                      *)
InnerReturns(how) ==
  /\ Ended(how)
  /\ used' = used + 1
  /\ call' = [call EXCEPT !.pc = "trajectory", !.todo =
       <<Event("verify.completed", Inner(call.run)),
         Event(IF how = "done" THEN "run.succeeded" ELSE "run.failed_verification",
               Inner(call.run))>>]

(* PlainLLMStrategy.forward: the cached answer, unless there is none or    *)
(* the cache cannot be read.                                               *)
ForwardCached ==
  /\ At("forward")
  /\ cache[call.model] # NoText
  /\ call' = [call EXCEPT !.pc = "candidate", !.text = cache[call.model]]
  /\ UNCHANGED <<counter, used, processed, spans, cache, store, process, calls, ghosts>>

ForwardServed ==
  /\ At("forward")
  /\ spent' = spent + 1
  /\ \E text \in Texts :
       /\ cache' = [cache EXCEPT ![call.model] = text]
       /\ call' = [call EXCEPT !.pc = "candidate", !.text = text]
  /\ UNCHANGED <<counter, used, processed, spans, store, process, calls, ended, lost>>

(* The cache fails to record the answer: the ToolError leaves forward.     *)
ForwardRaises ==
  /\ At("forward")
  /\ spent' = spent + 1
  /\ InnerRaises
  /\ UNCHANGED <<counter, processed, spans, cache, store, process, calls, lost>>

(* The provider raises: an error result, a FAILED loop, the span left open.*)
ForwardError ==
  /\ At("forward")
  /\ spent' = spent + 1
  /\ InnerReturns("failed")
  /\ UNCHANGED <<counter, processed, spans, cache, store, process, calls, lost>>

(* The candidate is written, tidied up and run: it may not be written, or  *)
(* be rejected by the executor; both leave the span open.                  *)
CandidateUnwritten ==
  /\ At("candidate")
  /\ InnerRaises
  /\ UNCHANGED <<counter, processed, spans, cache, store, process, calls, spent, lost>>

Rejected ==
  /\ At("candidate")
  /\ InnerReturns("failed")
  /\ UNCHANGED <<counter, processed, spans, cache, store, process, calls, spent, lost>>

Verified ==
  /\ At("candidate")
  /\ spans' = spans \ {call.run}
  /\ InnerReturns(IF call.text \in Passing THEN "done" ELSE "failed")
  /\ UNCHANGED <<counter, processed, cache, store, process, calls, spent, lost>>

(* end_span raises when the clock stepped back: nothing tells the score.   *)
SpanEndRaises ==
  /\ At("candidate")
  /\ spans' = spans \ {call.run}
  /\ InnerRaises
  /\ UNCHANGED <<counter, processed, cache, store, process, calls, spent, lost>>

(* The steps of the trajectory are to be published, but a TrajectoryStep   *)
(* has no attribute kind: the first access raises AttributeError.  A run   *)
(* that returned has at least three steps.                                 *)
TrajectoryRaises ==
  /\ At("trajectory")
  /\ call' = NoCall
  /\ UNCHANGED <<counter, used, processed, spans, cache, store, process, calls, ghosts>>

-----------------------------------------------------------------------------
(* The process ends and another one starts, with a new frame.              *)
Restart ==
  /\ process < MaxRestarts
  /\ process' = process + 1
  /\ lost' = lost \cup {e.id : e \in Range(call.todo)}
  /\ ended' = IF call.pc \in {"forward", "candidate"}
              THEN Append(ended, [model |-> call.model, run |-> call.run, process |-> process,
                                  started |-> call.started, how |-> "raised"])
              ELSE ended
  /\ call' = NoCall
  /\ counter' = 0 /\ used' = 0 /\ processed' = 0 /\ spent' = 0 /\ spans' = {}
  /\ UNCHANGED <<cache, store, calls>>

RunStep ==
  \/ Deliver \/ Persist
  \/ Refuse \/ Return \/ Delegate
  \/ ForwardCached \/ ForwardServed \/ ForwardRaises \/ ForwardError
  \/ CandidateUnwritten \/ Rejected \/ Verified \/ SpanEndRaises
  \/ TrajectoryRaises

Next == (\E m \in Models : Call(m)) \/ RunStep \/ Restart

Spec == Init /\ [][Next]_vars

(* A call runs on one thread to its end.                                   *)
FairSpec == Spec /\ WF_vars(RunStep)

-----------------------------------------------------------------------------
(* Properties.                                                             *)

Raised == {i \in DOMAIN ended : ended[i].process = process /\ ended[i].how = "raised"}

(* How far the code keeps "max LLM calls allowed" (reactive_frame.py:28):  *)
(* a call is made only by a run the budget admitted, and only those that   *)
(* raised are not charged for, so the calls beyond the limit are one for   *)
(* each run of the process that raised.  The frame is documented to allow  *)
(* none of them (see the findings).                                        *)
OverspendOnlyByRaising ==
  /\ used <= MaxLLMCalls
  /\ spent <= used + Cardinality(Raised) + (IF call.pc = "candidate" THEN 1 ELSE 0)

(* Whether the event is on record, still to be, or was lost on the way.    *)
Told(id) == id \in IdsIn(store) \cup lost \cup {e.id : e \in Range(call.todo)}

(* The store's verdict on a run is the one its loop ended with.            *)
VerdictsTold ==
  \A i \in DOMAIN ended :
    LET rows == {r \in Range(store) : r.run = Inner(ended[i].run) /\ r.type # "behavior.triggered"}
        verdict == IF ended[i].how = "done" THEN "run.succeeded" ELSE "run.failed_verification"
    IN  /\ {r.type : r \in rows} \subseteq {"verify.completed", verdict}
        /\ ended[i].how # "raised" =>
             \E n \in 1 .. MaxCalls :
               /\ Told(<<"verify.completed", Inner(ended[i].run), n>>)
               /\ Told(<<verdict, Inner(ended[i].run), n>>)
        /\ ended[i].how = "raised" => rows = {}

(* The runs of one process start under ids of their own, although the      *)
(* counter in them moves only when a run is delegated (the starts of calls *)
(* that were refused do share an id, and one process repeats another's).   *)
StartsTold ==
  \A i, j \in DOMAIN ended :
    /\ Told(<<"run.started", <<"reactive", ended[i].model>>, ended[i].started>>)
    /\ ended[i].process = ended[j].process /\ i # j => ended[i].started # ended[j].started

(* Behaviors react to an event before it is stored: an effect on record    *)
(* has its cause on record, or about to be, unless that append was lost.   *)
EffectsHaveCauses ==
  \A i \in DOMAIN store : store[i].type = "behavior.triggered" => Told(store[i].cause)

(* What the store tells of the runs, whatever raises, fails or restarts.   *)
StoreTellsRuns == VerdictsTold /\ StartsTold /\ EffectsHaveCauses

(* Every call of run comes to an end.                                      *)
CallsEnd == call.pc # "idle" ~> call.pc = "idle"

(* Types; the open spans are of runs that were begun, and no call is ahead *)
(* of the counter its event ids are made of.                               *)
TypeOK ==
  /\ call.pc \in {"idle", "check", "return", "forward", "candidate", "trajectory"}
  /\ call.model \in Models \cup {NoText} /\ call.text \in Texts \cup {NoText}
  /\ call.delivered \in BOOLEAN /\ Len(call.todo) \in 0 .. 2
  /\ call.started \in 0 .. counter
  /\ counter \in 0 .. MaxCalls /\ used \in Nat /\ spent \in Nat /\ processed \in Nat
  /\ spans \subseteq 1 .. Len(ended) + 1
  /\ cache \in [Models -> Texts \cup {NoText}]
  /\ process \in 0 .. MaxRestarts /\ calls \in 0 .. MaxCalls
=============================================================================

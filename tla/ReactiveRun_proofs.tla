------------------------- MODULE ReactiveRun_proofs -------------------------
(***************************************************************************)
(* Proofs about ReactiveRun, for any models, texts, budget and bounds on   *)
(* calls, lost appends and restarts: the frame bounds the provider calls,  *)
(* and the store tells how each run ended.                                 *)
(***************************************************************************)
EXTENDS ReactiveRun, DataLemmas, FiniteSetTheorems

-----------------------------------------------------------------------------
(* The inductive invariant.                                                *)

Runs == ({"reactive"} \X (Models \cup {NoText})) \cup ({"run"} \X Nat)
Verdicts == {"run.succeeded", "run.failed_verification"}
Types == {"run.started", "frame.exhausted", "run.failed", "verify.completed"} \cup Verdicts
EventIds == Types \X Runs \X Nat
Events == [id : EventIds, type : Types, run : Runs, ts : Nat, cause : {<< >>}]
Effects == [id : {"behavior.triggered"} \X Runs \X Nat, type : {"behavior.triggered"},
            run : Runs, ts : Nat, cause : EventIds]

Pcs == {"idle", "check", "return", "forward", "candidate", "trajectory"}
Calls == [pc : Pcs, model : Models \cup {NoText}, todo : Seq(Events), delivered : BOOLEAN,
          started : Nat, run : Nat, text : Texts \cup {NoText}]
Endings == [model : Models \cup {NoText}, run : Nat, process : Nat, started : Nat,
            how : {"done", "failed", "raised"}]

Records ==
  /\ call \in Calls
  /\ store \in Seq(Events \cup Effects)
  /\ ended \in Seq(Endings)
  /\ process \in Nat
  /\ calls \in Nat

(* Between the delegation and its end a run is the next to end; no event   *)
(* waits meanwhile, its start is the counter's last value, and the budget  *)
(* admits it.                                                              *)
InFlight == call.pc \in {"forward", "candidate"}

Underway ==
  /\ InFlight \/ call.pc = "idle" => call.todo = << >>
  /\ InFlight => /\ call.run = Len(ended) + 1
                 /\ counter = call.started + 1
                 /\ used < MaxLLMCalls
  /\ call.pc = "check" => call.started = counter /\ counter < calls
  /\ InFlight \/ call.pc = "check" => call.model \in Models
  /\ counter <= calls /\ calls <= MaxCalls

(* The run number is the place among the ended runs; starts of one process *)
(* are in the order of the runs, those to come are later ones.             *)
Begun == IF InFlight THEN call.started ELSE counter

EndingsInOrder ==
  \A i \in DOMAIN ended :
    /\ ended[i].run = i
    /\ ended[i].process <= process
    /\ ended[i].process = process => ended[i].started < Begun

StartId(model, started) == <<"run.started", <<"reactive", model>>, started>>

CurrentStartTold ==
  InFlight \/ call.pc = "check" => Told(StartId(call.model, call.started))

(* Events are of calls, or tell the verdict on a run that ended with it.   *)
Verdict(i) == IF ended[i].how = "done" THEN "run.succeeded" ELSE "run.failed_verification"
IsTrue(e) ==
  \/ \E m \in Models \cup {NoText} : e.run = <<"reactive", m>>
  \/ \E i \in DOMAIN ended : /\ e.run = Inner(i)
                             /\ ended[i].how # "raised"
                             /\ e.type \in {"verify.completed", Verdict(i)}

EventsTrue ==
  /\ \A e \in Range(call.todo) : IsTrue(e)
  /\ \A e \in Range(store) : e.type # "behavior.triggered" => IsTrue(e)

VerdictIdsTold ==
  \A i \in DOMAIN ended : ended[i].how # "raised" =>
    \E n \in 1 .. MaxCalls : /\ Told(<<"verify.completed", Inner(i), n>>)
                             /\ Told(<<Verdict(i), Inner(i), n>>)

IInv ==
  /\ TypeOK
  /\ Records
  /\ Underway
  /\ EndingsInOrder
  /\ CurrentStartTold
  /\ EventsTrue
  /\ VerdictIdsTold
  /\ StartsTold
  /\ EffectsHaveCauses
  /\ OverspendOnlyByRaising

-----------------------------------------------------------------------------
(* Lemmas.                                                                 *)

(* Appending a row adds it and its id, unless its id is there.             *)
LEMMA RowAppended ==
  ASSUME NEW S, NEW s \in Seq(S), NEW row \in S
  PROVE  /\ AppendRow(s, row) \in Seq(S)
         /\ Range(s) \subseteq Range(AppendRow(s, row))
         /\ Range(AppendRow(s, row)) \subseteq Range(s) \cup {row}
         /\ IdsIn(AppendRow(s, row)) = IdsIn(s) \cup {row.id}
<1>1. CASE row.id \in IdsIn(s)
  BY <1>1 DEF AppendRow
<1>2. CASE row.id \notin IdsIn(s)
  <2> DEFINE t == Append(s, row)
  <2>1. AppendRow(s, row) = t
    BY <1>2 DEF AppendRow
  <2>2. /\ t \in Seq(S)
        /\ DOMAIN s = 1 .. Len(s) /\ Len(s) \in Nat
        /\ DOMAIN t = 1 .. Len(s) + 1
        /\ \A i \in 1 .. Len(s) : t[i] = s[i]
        /\ t[Len(s) + 1] = row
    BY AppendProperties, LenProperties
  <2> HIDE DEF t
  <2>3. DOMAIN t = DOMAIN s \cup {Len(s) + 1}
    BY <2>2
  <2>4. Range(t) = Range(s) \cup {row}
    BY <2>2, <2>3 DEF Range
  <2>5. IdsIn(t) = IdsIn(s) \cup {row.id}
    BY <2>2, <2>3 DEF IdsIn
  <2> QED
    BY <2>1, <2>2, <2>4, <2>5
<1> QED
  BY <1>1, <1>2

(* The first element of a sequence and the others.                         *)
LEMMA HeadAndTail ==
  ASSUME NEW S, NEW s \in Seq(S), s # << >>
  PROVE  /\ Head(s) \in S
         /\ Tail(s) \in Seq(S)
         /\ Len(Tail(s)) = Len(s) - 1
         /\ Range(s) = {Head(s)} \cup Range(Tail(s))
<1>1. /\ Len(s) \in Nat \ {0}
      /\ DOMAIN s = 1 .. Len(s)
  BY EmptySeq, LenProperties
<1>2. /\ Head(s) \in S /\ Head(s) = s[1]
      /\ Tail(s) \in Seq(S) /\ Len(Tail(s)) = Len(s) - 1
      /\ \A i \in 1 .. Len(Tail(s)) : Tail(s)[i] = s[i + 1]
  BY HeadTailProperties, ElementOfSeq, <1>1
<1>3. DOMAIN Tail(s) = 1 .. Len(s) - 1
  BY <1>2, LenProperties
<1>4. \A i \in DOMAIN s : i = 1 \/ (i - 1 \in DOMAIN Tail(s) /\ Tail(s)[i - 1] = s[i])
  BY <1>1, <1>2, <1>3
<1>5. \A i \in DOMAIN Tail(s) : i + 1 \in DOMAIN s /\ Tail(s)[i] = s[i + 1]
  BY <1>1, <1>2, <1>3
<1>6. 1 \in DOMAIN s
  BY <1>1
<1> QED
  BY <1>2, <1>4, <1>5, <1>6 DEF Range

(* The empty sequence, sequences of one element and of two.                *)
LEMMA ShortSequences ==
  ASSUME NEW S, NEW a \in S
  PROVE  /\ << >> \in Seq(S) /\ Range(<< >>) = {} /\ Len(<< >>) = 0
         /\ <<a>> \in Seq(S) /\ Range(<<a>>) = {a} /\ Len(<<a>>) = 1
BY DEF Range

LEMMA PairSequence ==
  ASSUME NEW S, NEW a \in S, NEW b \in S
  PROVE  <<a, b>> \in Seq(S) /\ Range(<<a, b>>) = {a, b} /\ Len(<<a, b>>) = 2
BY DEF Range

(* One more run has ended.                                                 *)
LEMMA OneMoreEnded ==
  ASSUME Records, NEW e \in Endings, ended' = Append(ended, e)
  PROVE  /\ ended' \in Seq(Endings)
         /\ Len(ended') = Len(ended) + 1
         /\ Len(ended) \in Nat
         /\ DOMAIN ended = 1 .. Len(ended)
         /\ DOMAIN ended' = DOMAIN ended \cup {Len(ended) + 1}
         /\ \A i \in DOMAIN ended : ended'[i] = ended[i]
         /\ ended'[Len(ended) + 1] = e
  BY AppendProperties, LenProperties DEF Records

LEMMA EndingTypes ==
  ASSUME Records, NEW i \in DOMAIN ended
  PROVE  ended[i] \in Endings
BY StackElement DEF Records

(* The raised runs of this process are finitely many.                      *)
LEMMA RaisedFinite ==
  ASSUME Records
  PROVE  IsFiniteSet(Raised) /\ Cardinality(Raised) \in Nat
<1>1. IsFiniteSet(DOMAIN ended)
  <2>1. DOMAIN ended = 1 .. Len(ended) /\ Len(ended) \in Nat
    BY LenProperties DEF Records
  <2> QED
    BY <2>1, FS_Interval
<1>2. Raised \subseteq DOMAIN ended
  BY DEF Raised
<1> QED
  BY <1>1, <1>2, FS_Subset, FS_CardinalityType

(* An event that run publishes is well formed, and true if it is the outer *)
(* run's.                                                                  *)
LEMMA EventWellFormed ==
  ASSUME TypeOK, NEW type \in Types, NEW run \in Runs
  PROVE  /\ Event(type, run) \in Events
         /\ Event(type, run).type = type
         /\ Event(type, run).run = run
         /\ Event(type, run).id = <<type, run, counter>>
BY DEF Event, Events, EventIds, TypeOK

LEMMA OuterIsRun ==
  ASSUME Records
  PROVE  Outer \in Runs /\ \A e : e.run = Outer => IsTrue(e)
BY DEF Outer, Runs, Records, Calls, IsTrue

(* What is on record, to be recorded or lost.                              *)
ToldIds == IdsIn(store) \cup lost \cup {e.id : e \in Range(call.todo)}

LEMMA ToldMeans == \A id : Told(id) <=> id \in ToldIds
BY DEF Told, ToldIds

(* What is told of ended runs stays told.                                  *)
LEMMA HistoryKept ==
  ASSUME IInv, ended' = ended, process' = process, ToldIds \subseteq ToldIds', Begun <= Begun',
         Begun \in Nat, Begun' \in Nat
  PROVE  EndingsInOrder' /\ VerdictIdsTold' /\ StartsTold'
<1>1. \A id : Told(id) => Told(id)'
  BY ToldMeans DEF Told, ToldIds
<1>2. EndingsInOrder'
  <2> SUFFICES ASSUME NEW i \in DOMAIN ended
               PROVE  /\ ended[i].run = i
                      /\ ended[i].process <= process
                      /\ ended[i].process = process => ended[i].started < Begun'
    BY DEF EndingsInOrder
  <2>1. ended[i].started \in Nat
    BY EndingTypes DEF IInv, Endings
  <2> QED
    BY <2>1 DEF IInv, EndingsInOrder
<1>3. VerdictIdsTold'
  BY <1>1 DEF IInv, VerdictIdsTold, Inner, Verdict
<1>4. StartsTold'
  <2>1. StartsTold
    BY DEF IInv
  <2> QED
    BY <2>1, <1>1 DEF StartsTold
<1> QED
  BY <1>2, <1>3, <1>4

-----------------------------------------------------------------------------
(* The initial state.                                                      *)
LEMMA InitIInv == Init => IInv
<1> SUFFICES ASSUME Init PROVE IInv
  OBVIOUS
<1> USE BoundAssumption
<1>1. call = NoCall /\ call.todo = << >> /\ call.pc = "idle" /\ Len(call.todo) = 0
  BY DEF Init, NoCall
<1>2. Range(call.todo) = {} /\ Range(store) = {}
  BY <1>1 DEF Init, Range
<1>3. TypeOK
  BY <1>1 DEF Init, TypeOK, NoCall
<1>4. Records
  BY <1>1 DEF Init, Records, NoCall, Calls, Pcs
<1>5. Underway /\ EndingsInOrder /\ CurrentStartTold /\ VerdictIdsTold /\ StartsTold /\ EffectsHaveCauses
  BY <1>1 DEF Init, Underway, InFlight, EndingsInOrder, CurrentStartTold, VerdictIdsTold,
     StartsTold, EffectsHaveCauses
<1>6. EventsTrue
  BY <1>2 DEF EventsTrue
<1>7. OverspendOnlyByRaising
  <2>1. Raised = {}
    BY DEF Init, Raised
  <2> QED
    BY <1>1, <2>1, FS_EmptySet DEF Init, OverspendOnlyByRaising
<1> QED
  BY <1>3, <1>4, <1>5, <1>6, <1>7 DEF IInv

-----------------------------------------------------------------------------
(* Steps that leave the store and the ended runs alone.                    *)
LEMMA QuietStep ==
  ASSUME IInv, call.todo = << >>, UNCHANGED <<store, ended, lost, process>>,
         call' \in Calls, calls' \in Nat, TypeOK', Underway', CurrentStartTold',
         Begun <= Begun', Begun \in Nat, Begun' \in Nat, OverspendOnlyByRaising',
         \A e \in Range(call'.todo) : IsTrue(e)
  PROVE  IInv'
<1>1. Range(call.todo) = {}
  BY DEF Range
<1>2. ToldIds \subseteq ToldIds'
  BY <1>1 DEF ToldIds
<1>3. EndingsInOrder' /\ VerdictIdsTold' /\ StartsTold'
  BY <1>2, HistoryKept
<1>4. EventsTrue'
  <2>1. \A e : IsTrue(e) => IsTrue(e)'
    BY DEF IsTrue, Verdict, Inner
  <2> QED
    BY <2>1 DEF IInv, EventsTrue
<1>5. EffectsHaveCauses'
  <2>1. \A id : Told(id) => Told(id)'
    BY <1>2, ToldMeans DEF Told, ToldIds
  <2> QED
    BY <2>1 DEF IInv, EffectsHaveCauses
<1>6. Records'
  BY DEF IInv, Records
<1> QED
  BY <1>3, <1>4, <1>5, <1>6 DEF IInv

(* What is left of the types after a step, given that of the call.         *)
LEMMA TypeStep ==
  ASSUME call' \in Calls, Len(call'.todo) \in 0 .. 2, call'.started \in 0 .. counter',
         counter' \in 0 .. MaxCalls, used' \in Nat, spent' \in Nat, processed' \in Nat,
         spans' \subseteq 1 .. Len(ended') + 1,
         cache' \in [Models -> Texts \cup {NoText}],
         process' \in 0 .. MaxRestarts, calls' \in 0 .. MaxCalls
  PROVE  TypeOK'
<1>1. /\ call'.pc \in {"idle", "check", "return", "forward", "candidate", "trajectory"}
      /\ call'.model \in Models \cup {NoText}
      /\ call'.text \in Texts \cup {NoText}
      /\ call'.delivered \in BOOLEAN
  BY DEF Calls, Pcs
<1> QED
  BY <1>1 DEF TypeOK

(* run is called.                                                          *)
LEMMA CallIInv ==
  ASSUME IInv, NEW m \in Models, Call(m)
  PROVE  IInv'
<1> USE BoundAssumption
<1> DEFINE run == <<"reactive", m>>
           e == Event("run.started", run)
<1>1. run \in Runs /\ "run.started" \in Types
  BY DEF Runs, Types
<1>2. e \in Events /\ e.run = run /\ e.id = <<"run.started", run, counter>>
  BY <1>1, EventWellFormed DEF IInv
<1> HIDE DEF e
<1> DEFINE todo == <<e>>
<1>3. todo \in Seq(Events) /\ Range(todo) = {e} /\ Len(todo) = 1
  BY <1>2, ShortSequences
<1>4. call' = [NoCall EXCEPT !.pc = "check", !.model = m, !.started = counter, !.todo = todo]
  BY DEF Call, e
<1> HIDE DEF todo
<1>5. /\ call'.pc = "check" /\ call'.model = m /\ call'.started = counter
      /\ call'.todo = todo /\ call'.delivered = FALSE /\ call'.run = 0 /\ call'.text = NoText
  BY <1>4 DEF NoCall
<1>6. counter \in Nat /\ calls \in Nat
  BY DEF IInv, TypeOK, Records
<1>7. call' \in Calls
  BY <1>3, <1>4, <1>6 DEF NoCall, Calls, Pcs
<1>8. TypeOK'
  <2>1. /\ calls < MaxCalls /\ calls' = calls + 1
        /\ UNCHANGED <<counter, used, processed, spans, cache, process, spent, ended>>
    BY DEF Call, ghosts
  <2>2. calls' \in 0 .. MaxCalls /\ call'.started \in 0 .. counter' /\ Len(call'.todo) \in 0 .. 2
    BY <1>3, <1>5, <1>6, <2>1 DEF IInv, TypeOK
  <2> QED
    BY <1>7, <2>1, <2>2, TypeStep DEF IInv, TypeOK
<1>9. Underway'
  BY <1>5, <1>6 DEF IInv, Underway, InFlight, Call
<1>10. CurrentStartTold'
  <2>1. <<"run.started", run, counter>> \in {x.id : x \in Range(call'.todo)}
    BY <1>2, <1>3, <1>5
  <2> QED
    BY <2>1, <1>5 DEF CurrentStartTold, Told, StartId, InFlight
<1>11. Begun = counter /\ Begun' = counter
  BY <1>5 DEF Begun, InFlight, Call, At
<1>12. OverspendOnlyByRaising'
  BY <1>5 DEF IInv, OverspendOnlyByRaising, Raised, Call, At, ghosts
<1>13. \A x \in Range(call'.todo) : IsTrue(x)
  BY <1>2, <1>3, <1>5 DEF IsTrue
<1>14. call.todo = << >> /\ UNCHANGED <<store, ended, lost, process>> /\ calls' \in Nat
  BY <1>6 DEF Call, At, Publishing, ghosts
<1> QED
  BY <1>6, <1>7, <1>8, <1>9, <1>10, <1>11, <1>12, <1>13, <1>14, QuietStep

(* No call in progress.                                                    *)
LEMMA NoCallIsCall ==
  /\ NoCall \in Calls
  /\ NoCall.pc = "idle" /\ NoCall.todo = << >> /\ NoCall.started = 0
  /\ Len(NoCall.todo) = 0 /\ Range(NoCall.todo) = {}
<1>1. NoCall.pc = "idle" /\ NoCall.todo = << >> /\ NoCall.started = 0
  BY DEF NoCall
<1>2. NoCall \in Calls
  BY DEF NoCall, Calls, Pcs
<1>3. Len(<< >>) = 0 /\ Range(<< >>) = {}
  BY DEF Range
<1> QED
  BY <1>1, <1>2, <1>3

(* run returns, or is left by the exception of its trajectory.             *)
LEMMA CallEndsIInv ==
  ASSUME IInv, At("return") \/ At("trajectory"), call' = NoCall,
         UNCHANGED <<counter, used, processed, spans, cache, store, process, calls, ghosts>>
  PROVE  IInv'
<1> USE BoundAssumption
<1>1. /\ call' \in Calls /\ call'.pc = "idle" /\ call'.todo = << >> /\ call'.started = 0
      /\ Len(call'.todo) = 0 /\ Range(call'.todo) = {}
  BY NoCallIsCall
<1>2. counter \in Nat /\ calls \in Nat
  BY DEF IInv, TypeOK, Records
<1>3. UNCHANGED <<counter, used, processed, spans, cache, store, process, calls, ended, lost, spent>>
  BY DEF ghosts
<1>4. TypeOK'
  BY <1>1, <1>2, <1>3, TypeStep DEF IInv, TypeOK
<1>5. Underway'
  BY <1>1, <1>3 DEF IInv, Underway, InFlight
<1>6. CurrentStartTold'
  BY <1>1 DEF CurrentStartTold, InFlight
<1>7. Begun = counter /\ Begun' = counter
  BY <1>1, <1>3 DEF Begun, InFlight, At
<1>8. OverspendOnlyByRaising'
  BY <1>1, <1>3 DEF IInv, OverspendOnlyByRaising, Raised, At
<1>9. \A e \in Range(call'.todo) : IsTrue(e)
  BY <1>1
<1>10. call.todo = << >>
  BY DEF At, Publishing
<1> QED
  BY <1>1, <1>2, <1>3, <1>4, <1>5, <1>6, <1>7, <1>8, <1>9, <1>10, QuietStep

(* run refuses, for the frame is exhausted.                                *)
LEMMA RefuseIInv ==
  ASSUME IInv, Refuse
  PROVE  IInv'
<1> USE BoundAssumption
<1> DEFINE e == Event("frame.exhausted", Outer)
           todo == <<e>>
<1>1. e \in Events /\ e.run = Outer
  BY EventWellFormed, OuterIsRun DEF IInv, Types
<1>2. call' = [call EXCEPT !.pc = "return", !.todo = todo]
  BY DEF Refuse
<1> HIDE DEF e
<1>3. todo \in Seq(Events) /\ Range(todo) = {e} /\ Len(todo) = 1
  BY <1>1, ShortSequences
<1> HIDE DEF todo
<1>4. call \in Calls
  BY DEF IInv, Records
<1>5. /\ call'.pc = "return" /\ call'.todo = todo /\ call'.started = call.started
      /\ call' \in Calls
  BY <1>2, <1>3, <1>4 DEF Calls, Pcs
<1>6. UNCHANGED <<counter, used, processed, spans, cache, store, process, calls, ended, lost, spent>>
  BY DEF Refuse, ghosts
<1>7. counter \in Nat /\ calls \in Nat
  BY DEF IInv, TypeOK, Records
<1>8. TypeOK'
  <2>1. Len(call'.todo) \in 0 .. 2 /\ call'.started \in 0 .. counter'
    BY <1>3, <1>5, <1>6 DEF IInv, TypeOK
  <2> QED
    BY <1>5, <1>6, <2>1, TypeStep DEF IInv, TypeOK
<1>9. Underway'
  BY <1>5, <1>6 DEF IInv, Underway, InFlight
<1>10. CurrentStartTold'
  BY <1>5 DEF CurrentStartTold, InFlight
<1>11. call.pc = "check" /\ call.todo = << >>
  BY DEF Refuse, At, Publishing
<1>12. Begun = counter /\ Begun' = counter
  BY <1>5, <1>6, <1>11 DEF Begun, InFlight
<1>13. OverspendOnlyByRaising'
  BY <1>5, <1>6, <1>11 DEF IInv, OverspendOnlyByRaising, Raised
<1>14. \A x \in Range(call'.todo) : IsTrue(x)
  BY <1>1, <1>3, <1>5, OuterIsRun DEF IInv
<1> QED
  BY <1>5, <1>6, <1>7, <1>8, <1>9, <1>10, <1>11, <1>12, <1>13, <1>14, QuietStep

(* The run is delegated: its number is the next, its start is on record.   *)
LEMMA DelegateIInv ==
  ASSUME IInv, Delegate
  PROVE  IInv'
<1> USE BoundAssumption
<1> DEFINE next == Len(ended) + 1
<1>1. /\ call \in Calls /\ counter \in Nat /\ calls \in Nat /\ next \in Nat \ {0}
      /\ spans \subseteq 1 .. next
  BY LenProperties DEF IInv, Records, TypeOK
<1>2. /\ call.pc = "check" /\ call.todo = << >> /\ used < MaxLLMCalls
      /\ call.started = counter /\ counter < calls /\ calls <= MaxCalls
      /\ call.model \in Models
  BY <1>1 DEF Delegate, At, Publishing, IInv, Underway, IsExhausted, TypeOK
<1>3. call' = [call EXCEPT !.pc = "forward", !.run = next]
  BY DEF Delegate
<1>4. /\ UNCHANGED <<used, processed, cache, store, process, calls, ended, lost, spent>>
      /\ counter' = counter + 1 /\ spans' = spans \cup {next} /\ Len(ended') + 1 = next
  BY DEF Delegate, ghosts
<1> HIDE DEF next
<1>5. /\ call'.pc = "forward" /\ call'.todo = << >> /\ call'.started = call.started
      /\ call'.model = call.model /\ call'.run = next
  BY <1>1, <1>2, <1>3 DEF Calls
<1>6. call' \in Calls
  BY <1>1, <1>3 DEF Calls, Pcs
<1>7. TypeOK'
  <2>1. Len(call'.todo) \in 0 .. 2
    BY <1>2, <1>5 DEF IInv, TypeOK
  <2>2. counter' \in 0 .. MaxCalls /\ call'.started \in 0 .. counter'
    BY <1>1, <1>2, <1>5, <1>4 DEF IInv, TypeOK
  <2>3. spans' \subseteq 1 .. Len(ended') + 1
    BY <1>1, <1>4
  <2> QED
    BY <1>6, <1>4, <2>1, <2>2, <2>3, TypeStep DEF IInv, TypeOK
<1>8. Underway'
  <2>1. call'.run = Len(ended') + 1
    BY <1>5, <1>4
  <2> QED
    BY <2>1, <1>1, <1>2, <1>5, <1>4 DEF Underway, InFlight
<1>9. CurrentStartTold'
  BY <1>2, <1>5, <1>4 DEF IInv, CurrentStartTold, InFlight, Told, StartId
<1>10. Begun = counter /\ Begun' = counter
  BY <1>2, <1>5 DEF Begun, InFlight
<1>11. OverspendOnlyByRaising'
  BY <1>2, <1>5, <1>4 DEF IInv, OverspendOnlyByRaising, Raised
<1>12. \A x \in Range(call'.todo) : IsTrue(x)
  BY <1>5 DEF Range
<1> QED
  BY <1>1, <1>2, <1>6, <1>4, <1>7, <1>8, <1>9, <1>10, <1>11, <1>12, QuietStep

(* The provider is asked, or the cache: a candidate is there.              *)
LEMMA ForwardIInv ==
  ASSUME IInv, At("forward"), NEW text \in Texts \cup {NoText}, NEW d \in {0, 1},
         call' = [call EXCEPT !.pc = "candidate", !.text = text],
         spent' = spent + d,
         cache' \in [Models -> Texts \cup {NoText}],
         UNCHANGED <<counter, used, processed, spans, store, process, calls, ended, lost>>
  PROVE  IInv'
<1> USE BoundAssumption
<1>1. call \in Calls /\ counter \in Nat /\ calls \in Nat /\ spent \in Nat /\ used \in Nat
  BY DEF IInv, Records, TypeOK
<1>2. call.pc = "forward" /\ call.todo = << >> /\ InFlight
  BY DEF At, Publishing, InFlight
<1>3. /\ call'.pc = "candidate" /\ call'.todo = << >> /\ call'.started = call.started
      /\ call'.model = call.model /\ call'.run = call.run /\ call' \in Calls
  BY <1>1, <1>2 DEF Calls, Pcs
<1>4. TypeOK'
  <2>1. Len(call'.todo) \in 0 .. 2 /\ call'.started \in 0 .. counter'
    BY <1>2, <1>3 DEF IInv, TypeOK
  <2> QED
    BY <1>1, <1>3, <2>1, TypeStep DEF IInv, TypeOK
<1>5. Underway'
  BY <1>2, <1>3 DEF IInv, Underway, InFlight
<1>6. CurrentStartTold'
  BY <1>2, <1>3 DEF IInv, CurrentStartTold, InFlight, Told, StartId
<1>7. Begun = call.started /\ Begun' = call.started /\ call.started \in Nat
  BY <1>1, <1>2, <1>3 DEF Begun, InFlight, Calls
<1>8. OverspendOnlyByRaising'
  <2>1. Raised' = Raised /\ Cardinality(Raised) \in Nat
    BY RaisedFinite DEF Raised, IInv
  <2> QED
    BY <1>1, <1>2, <1>3, <2>1 DEF IInv, OverspendOnlyByRaising
<1>9. \A e \in Range(call'.todo) : IsTrue(e)
  BY <1>3 DEF Range
<1> QED
  BY <1>1, <1>2, <1>3, <1>4, <1>5, <1>6, <1>7, <1>8, <1>9, QuietStep

-----------------------------------------------------------------------------
(* Publishing.                                                             *)

(* What is told, and true, stays so when an event moves from the call to   *)
(* the store or is lost, and effects are recorded.                         *)
LEMMA PublishingStep ==
  ASSUME IInv, call.todo # << >>,
         NEW todo, call' = [call EXCEPT !.todo = todo, !.delivered = call'.delivered],
         todo \in Seq(Events), call'.delivered \in BOOLEAN,
         Len(todo) <= Len(call.todo), Range(todo) \subseteq Range(call.todo),
         store' \in Seq(Events \cup Effects), processed' \in Nat,
         ToldIds \subseteq ToldIds',
         \A r \in Range(store') :
           \/ r \in Range(store) \/ r \in Range(call.todo)
           \/ r.type = "behavior.triggered" /\ Told(r.cause),
         UNCHANGED <<counter, used, spans, cache, process, calls, spent, ended>>
  PROVE  IInv'
<1> USE BoundAssumption
<1>1. call \in Calls /\ counter \in Nat /\ calls \in Nat /\ Len(call.todo) \in 0 .. 2
  BY DEF IInv, Records, TypeOK
<1>2. ~InFlight /\ call.pc # "idle"
  BY DEF IInv, Underway
<1>3. /\ call'.pc = call.pc /\ call'.todo = todo /\ call'.started = call.started
      /\ call'.model = call.model /\ call' \in Calls
  BY <1>1 DEF Calls
<1>4. TypeOK'
  <2>1. Len(todo) \in 0 .. 2
    <3> DEFINE new == Len(todo)
               old == Len(call.todo)
    <3>1. new \in Nat /\ new <= old /\ old \in 0 .. 2
      BY <1>1, LenProperties
    <3> HIDE DEF new, old
    <3>2. new \in 0 .. 2
      BY <3>1
    <3> QED
      BY <3>2 DEF new
  <2>2. Len(call'.todo) \in 0 .. 2 /\ call'.started \in 0 .. counter'
    BY <1>3, <2>1 DEF IInv, TypeOK
  <2> QED
    BY <1>3, <2>2, TypeStep DEF IInv, TypeOK
<1>5. Underway'
  BY <1>2, <1>3 DEF IInv, Underway, InFlight
<1>6. \A id : Told(id) => Told(id)'
  BY ToldMeans DEF Told, ToldIds
<1>7. CurrentStartTold'
  BY <1>2, <1>3, <1>6 DEF IInv, CurrentStartTold, InFlight, StartId
<1>8. Begun = counter /\ Begun' = counter
  BY <1>2, <1>3 DEF Begun, InFlight
<1>9. EndingsInOrder' /\ VerdictIdsTold' /\ StartsTold'
  BY <1>1, <1>8, HistoryKept
<1>10. OverspendOnlyByRaising'
  BY <1>3 DEF IInv, OverspendOnlyByRaising, Raised
<1>11. EventsTrue'
  <2>1. \A e : IsTrue(e) => IsTrue(e)'
    BY DEF IsTrue, Verdict, Inner
  <2>2. \A e \in Range(call'.todo) : IsTrue(e)
    BY <1>3 DEF IInv, EventsTrue
  <2>3. \A e \in Range(store') : e.type # "behavior.triggered" => IsTrue(e)
    BY DEF IInv, EventsTrue
  <2> QED
    BY <2>1, <2>2, <2>3 DEF EventsTrue
<1>12. EffectsHaveCauses'
  <2>1. \A r \in Range(store) : r.type = "behavior.triggered" => Told(r.cause)
    BY DEF IInv, EffectsHaveCauses, Range
  <2>2. \A r \in Range(call.todo) : r.type # "behavior.triggered"
    <3> SUFFICES ASSUME NEW i \in DOMAIN call.todo
                 PROVE  call.todo[i].type # "behavior.triggered"
      BY DEF Range
    <3>1. call.todo \in Seq(Events)
      BY <1>1 DEF Calls
    <3>2. call.todo[i] \in Events
      BY <3>1, StackElement
    <3> QED
      BY <3>2 DEF Events, Types, Verdicts
  <2>3. \A r \in Range(store') : r.type = "behavior.triggered" => Told(r.cause)
    BY <2>1, <2>2
  <2> QED
    BY <1>6, <2>3 DEF EffectsHaveCauses, Range
<1>13. Records'
  BY <1>3 DEF IInv, Records
<1> QED
  BY <1>4, <1>5, <1>7, <1>9, <1>10, <1>11, <1>12, <1>13 DEF IInv

(* An event reaches the behaviors, which may react.                        *)
LEMMA DeliverIInv ==
  ASSUME IInv, Deliver
  PROVE  IInv'
<1> DEFINE e == Head(call.todo)
           todo == call.todo
<1>1. call \in Calls /\ call.todo # << >> /\ call.todo \in Seq(Events) /\ processed \in Nat
  BY DEF IInv, Records, Calls, Deliver, Publishing, TypeOK
<1>2. e \in Events /\ e \in Range(call.todo)
  BY <1>1, HeadAndTail
<1>3. Effect(e) \in Effects /\ Effect(e).type = "behavior.triggered" /\ Effect(e).cause = e.id
  <2> HIDE DEF e
  <2> QED
    BY <1>1, <1>2 DEF Effect, Effects, Events
<1>4. call' = [call EXCEPT !.todo = todo, !.delivered = call'.delivered] /\ call'.delivered = TRUE
  BY <1>1 DEF Deliver, Calls
<1>5. store' = store \/ store' = AppendRow(store, Effect(e))
  BY DEF Deliver
<1> DEFINE row == Effect(e)
<1> HIDE DEF row
<1>6. /\ store' \in Seq(Events \cup Effects)
      /\ IdsIn(store) \subseteq IdsIn(store')
      /\ Range(store') \subseteq Range(store) \cup {row}
  <2>1. store \in Seq(Events \cup Effects) /\ row \in Events \cup Effects
    BY <1>3 DEF row, IInv, Records
  <2>2. CASE store' = store
    BY <2>1, <2>2
  <2>3. CASE store' = AppendRow(store, row)
    BY <2>1, <2>3, RowAppended
  <2> QED
    BY <1>5, <2>2, <2>3 DEF row
<1>7. Told(e.id)
  BY <1>2 DEF Told
<1>8. row.type = "behavior.triggered" /\ Told(row.cause)
  BY <1>3, <1>7 DEF row
<1>9. call'.todo = call.todo
  BY <1>1, <1>4 DEF Calls
<1>10. ToldIds \subseteq ToldIds'
  BY <1>6, <1>9 DEF ToldIds, Deliver, ghosts
<1>11. processed' \in Nat /\ UNCHANGED <<counter, used, spans, cache, process, calls, spent, ended>>
  BY <1>1 DEF Deliver, ghosts
<1>12. Len(todo) <= Len(call.todo)
  BY <1>1, LenProperties
<1>13. \A r \in Range(store') :
           \/ r \in Range(store) \/ r \in Range(call.todo)
           \/ r.type = "behavior.triggered" /\ Told(r.cause)
  BY <1>6, <1>8
<1> HIDE DEF e
<1> QED
  BY <1>1, <1>4, <1>6, <1>10, <1>11, <1>12, <1>13, PublishingStep

(* The event is appended, or lost.                                         *)
LEMMA PersistIInv ==
  ASSUME IInv, Persist
  PROVE  IInv'
<1> DEFINE e == Head(call.todo)
           todo == Tail(call.todo)
<1>1. call \in Calls /\ call.todo # << >> /\ call.todo \in Seq(Events) /\ processed \in Nat
  BY DEF IInv, Records, Calls, Persist, Publishing, TypeOK
<1>2. /\ e \in Events /\ todo \in Seq(Events) /\ Len(todo) = Len(call.todo) - 1
      /\ Range(call.todo) = {e} \cup Range(todo)
  BY <1>1, HeadAndTail
<1>3. /\ call' = [call EXCEPT !.todo = todo, !.delivered = FALSE]
      /\ \/ store' = AppendRow(store, e) /\ lost' = lost
         \/ store' = store /\ lost' = lost \cup {e.id}
      /\ processed' = processed
      /\ UNCHANGED <<counter, used, spans, cache, process, calls, spent, ended>>
  BY DEF Persist
<1> HIDE DEF e, todo
<1>4. call'.delivered = FALSE /\ call'.todo = todo
  BY <1>1, <1>3 DEF Calls
<1>5. store \in Seq(Events \cup Effects) /\ e \in Events \cup Effects
  BY <1>2 DEF IInv, Records
<1>6. /\ store' \in Seq(Events \cup Effects)
      /\ ToldIds \subseteq ToldIds'
      /\ Range(store') \subseteq Range(store) \cup {e}
  <2>1. CASE store' = AppendRow(store, e) /\ lost' = lost
    <3>1. /\ store' \in Seq(Events \cup Effects)
          /\ IdsIn(store') = IdsIn(store) \cup {e.id}
          /\ Range(store') \subseteq Range(store) \cup {e}
      BY <1>5, <2>1, RowAppended
    <3> QED
      BY <1>2, <1>4, <2>1, <3>1 DEF ToldIds
  <2>2. CASE store' = store /\ lost' = lost \cup {e.id}
    BY <1>2, <1>4, <1>5, <2>2 DEF ToldIds
  <2> QED
    BY <1>3, <2>1, <2>2
<1>7. Len(todo) <= Len(call.todo)
  BY <1>1, <1>2, LenProperties
<1>8. \A r \in Range(store') :
           \/ r \in Range(store) \/ r \in Range(call.todo)
           \/ r.type = "behavior.triggered" /\ Told(r.cause)
  BY <1>2, <1>6
<1>9. call' = [call EXCEPT !.todo = todo, !.delivered = call'.delivered]
  BY <1>3, <1>4
<1> QED
  BY <1>1, <1>2, <1>3, <1>4, <1>6, <1>7, <1>8, <1>9, PublishingStep

-----------------------------------------------------------------------------
(* The end of a run.                                                       *)

(* What a run that ends leaves, whether its call goes on or the process    *)
(* ends with it: its start is on record, or lost.                          *)
LEMMA RunEnds ==
  ASSUME IInv, InFlight,
         NEW how \in {"done", "failed", "raised"},
         ended' = Append(ended, [model |-> call.model, run |-> call.run, process |-> process,
                                 started |-> call.started, how |-> how]),
         process' = process \/ process' = process + 1,
         process' = process => Begun' = counter,
         ToldIds \subseteq ToldIds',
         how # "raised" =>
           LET i == Len(ended) + 1
           IN  \E n \in 1 .. MaxCalls :
                 /\ <<"verify.completed", Inner(i), n>> \in ToldIds'
                 /\ <<IF how = "done" THEN "run.succeeded" ELSE "run.failed_verification",
                      Inner(i), n>> \in ToldIds'
  PROVE  /\ ended' \in Seq(Endings)
         /\ EndingsInOrder' /\ VerdictIdsTold' /\ StartsTold'
         /\ Len(ended') = Len(ended) + 1
         /\ ended'[Len(ended) + 1].how = how
         /\ \A e : IsTrue(e) => IsTrue(e)'
         /\ Cardinality(Raised) \in Nat
         /\ process' = process =>
              Cardinality(Raised') = Cardinality(Raised) + (IF how = "raised" THEN 1 ELSE 0)
<1> DEFINE last == [model |-> call.model, run |-> call.run, process |-> process,
                    started |-> call.started, how |-> how]
           n == Len(ended) + 1
<1>1. call \in Calls /\ process \in Nat /\ counter \in Nat
  BY DEF IInv, Records, TypeOK
<1>2. /\ last \in Endings /\ last.run = call.run /\ last.process = process
      /\ last.started = call.started /\ last.how = how /\ last.model = call.model
  BY <1>1 DEF Endings, Calls
<1>3. ended' = Append(ended, last)
  OBVIOUS
<1> HIDE DEF last
<1>4. /\ ended' \in Seq(Endings)
      /\ Len(ended') = n /\ n \in Nat
      /\ DOMAIN ended' = DOMAIN ended \cup {n}
      /\ n \notin DOMAIN ended /\ \A i \in DOMAIN ended : i \in Nat
      /\ \A i \in DOMAIN ended : ended'[i] = ended[i]
      /\ ended'[n] = last
  BY <1>2, <1>3, OneMoreEnded DEF IInv
<1>5. /\ call.run = n /\ counter = call.started + 1 /\ call.started \in Nat
      /\ Begun = call.started
  BY <1>1 DEF IInv, Underway, Calls, Begun
<1> HIDE DEF n
<1>6. \A i \in DOMAIN ended : ended[i].started \in Nat /\ ended[i].process \in Nat
  BY EndingTypes DEF IInv, Endings
<1>7. \A id : Told(id) => Told(id)' /\ id \in ToldIds'
  BY ToldMeans DEF Told, ToldIds
<1>8. EndingsInOrder'
  <2>1. ASSUME NEW i \in DOMAIN ended
        PROVE  /\ ended[i].run = i
               /\ ended[i].process <= process'
               /\ ended[i].process = process' => ended[i].started < Begun'
    <3>1. /\ ended[i].run = i /\ ended[i].process <= process
          /\ ended[i].process = process => ended[i].started < call.started
      BY <1>5 DEF IInv, EndingsInOrder
    <3> QED
      BY <3>1, <1>1, <1>5, <1>6
  <2>2. /\ last.run = n
        /\ last.process <= process'
        /\ last.process = process' => last.started < Begun'
    BY <1>1, <1>2, <1>5
  <2> QED
    BY <1>4, <2>1, <2>2 DEF EndingsInOrder
<1>9. VerdictIdsTold'
  <2> DEFINE V(i) == IF ended'[i].how = "done" THEN "run.succeeded" ELSE "run.failed_verification"
             Ok(i) == \E k \in 1 .. MaxCalls : /\ <<"verify.completed", Inner(i), k>> \in ToldIds'
                                               /\ <<V(i), Inner(i), k>> \in ToldIds'
  <2>1. ASSUME NEW i \in DOMAIN ended, ended[i].how # "raised"
        PROVE  Ok(i)
    <3>1. PICK k \in 1 .. MaxCalls : /\ Told(<<"verify.completed", Inner(i), k>>)
                                     /\ Told(<<Verdict(i), Inner(i), k>>)
      BY <2>1 DEF IInv, VerdictIdsTold
    <3>2. Verdict(i) = V(i)
      BY <1>4 DEF Verdict
    <3>3. Told(<<V(i), Inner(i), k>>)
      BY <3>1, <3>2
    <3> HIDE DEF V
    <3> QED
      BY <1>7, <3>1, <3>3
  <2>2. how # "raised" => Ok(n)
    <3>1. V(n) = IF how = "done" THEN "run.succeeded" ELSE "run.failed_verification"
      BY <1>2, <1>4
    <3> HIDE DEF V
    <3> QED
      BY <3>1 DEF n
  <2> HIDE DEF Ok
  <2>3. \A i \in DOMAIN ended' : ended'[i].how # "raised" => Ok(i)
    BY <1>2, <1>4, <2>1, <2>2
  <2>4. ASSUME NEW i \in DOMAIN ended', ended'[i].how # "raised"
        PROVE  \E k \in 1 .. MaxCalls : /\ Told(<<"verify.completed", Inner(i), k>>)'
                                        /\ Told(<<Verdict(i), Inner(i), k>>)'
    <3>1. PICK k \in 1 .. MaxCalls : /\ <<"verify.completed", Inner(i), k>> \in ToldIds'
                                     /\ <<V(i), Inner(i), k>> \in ToldIds'
      BY <2>3, <2>4 DEF Ok
    <3>2. Verdict(i)' = V(i)
      BY DEF Verdict
    <3> QED
      BY <3>1, <3>2 DEF Told, ToldIds, Inner, Verdict
  <2> QED
    BY <2>4 DEF VerdictIdsTold
<1>10. StartsTold'
  <2> DEFINE Tells(i) == StartId(ended'[i].model, ended'[i].started) \in ToldIds'
             Apart(i, j) == ended'[i].process = ended'[j].process /\ i # j =>
                              ended'[i].started # ended'[j].started
  <2>1. ASSUME NEW i \in DOMAIN ended
        PROVE  Tells(i)
    <3>1. Told(StartId(ended[i].model, ended[i].started))
      BY DEF IInv, StartsTold, StartId
    <3> QED
      BY <1>4, <1>7, <3>1
  <2>2. Tells(n)
    <3>1. Told(StartId(call.model, call.started))
      BY DEF IInv, CurrentStartTold
    <3> QED
      BY <1>2, <1>4, <1>7, <3>1
  <2>3. ASSUME NEW i \in DOMAIN ended, NEW j \in DOMAIN ended
        PROVE  Apart(i, j)
    BY <1>4 DEF IInv, StartsTold
  <2>4. ASSUME NEW i \in DOMAIN ended
        PROVE  Apart(i, n) /\ Apart(n, i)
    <3>1. ended[i].process = process => ended[i].started < call.started
      BY <1>5 DEF IInv, EndingsInOrder
    <3> QED
      BY <1>2, <1>4, <1>5, <1>6, <3>1
  <2> HIDE DEF Tells, Apart
  <2>5. \A i, j \in DOMAIN ended' : Tells(i) /\ (i = j \/ Apart(i, j))
    BY <1>4, <2>1, <2>2, <2>3, <2>4
  <2>6. ASSUME NEW i \in DOMAIN ended', NEW j \in DOMAIN ended'
        PROVE  /\ Told(<<"run.started", <<"reactive", ended[i].model>>, ended[i].started>>)'
               /\ (ended[i].process = ended[j].process /\ i # j => ended[i].started # ended[j].started)'
    <3>1. Tells(i) /\ (i = j \/ Apart(i, j))
      BY <2>5, <2>6
    <3> QED
      BY <3>1 DEF Tells, Apart, Told, ToldIds, StartId
  <2> QED
    BY <2>6 DEF StartsTold
<1>11. \A e : IsTrue(e) => IsTrue(e)'
  BY <1>4 DEF IsTrue, Verdict, Inner
<1>12. IsFiniteSet(Raised) /\ Cardinality(Raised) \in Nat
  BY RaisedFinite DEF IInv
<1>13. process' = process => Cardinality(Raised') = Cardinality(Raised) + (IF how = "raised" THEN 1 ELSE 0)
  <2>1. n \notin Raised
    BY <1>4 DEF Raised
  <2>2. process' = process => Raised' = IF how = "raised" THEN Raised \cup {n} ELSE Raised
    BY <1>2, <1>4 DEF Raised
  <2> QED
    BY <1>12, <2>1, <2>2, FS_AddElement
<1> QED
  BY <1>2, <1>4, <1>8, <1>9, <1>10, <1>11, <1>12, <1>13 DEF n

(* The run ended and its call goes on, with what is to be published of it. *)
LEMMA EndedStep ==
  ASSUME IInv, InFlight, NEW how \in {"done", "failed", "raised"}, Ended(how),
         NEW pc \in {"return", "trajectory"}, NEW todo \in Seq(Events),
         call' = [call EXCEPT !.pc = pc, !.todo = todo],
         Len(todo) \in 0 .. 2,
         \A e \in Range(todo) : IsTrue(e)',
         how # "raised" =>
           LET i == Len(ended) + 1
           IN  \E n \in 1 .. MaxCalls :
                 /\ <<"verify.completed", Inner(i), n>> \in {e.id : e \in Range(todo)}
                 /\ <<IF how = "done" THEN "run.succeeded" ELSE "run.failed_verification",
                      Inner(i), n>> \in {e.id : e \in Range(todo)},
         used' = used + (IF how = "raised" THEN 0 ELSE 1),
         spent' \in Nat, spent' <= used + Cardinality(Raised) + 1,
         spans' \subseteq spans,
         UNCHANGED <<counter, processed, cache, store, process, calls, lost>>
  PROVE  IInv'
<1> USE BoundAssumption
<1>1. /\ call \in Calls /\ counter \in Nat /\ calls \in Nat /\ used \in Nat
      /\ spans \subseteq 1 .. Len(ended) + 1 /\ Len(ended) \in Nat
  BY LenProperties DEF IInv, Records, TypeOK
<1>2. /\ call'.pc = pc /\ call'.todo = todo /\ call'.started = call.started
      /\ call'.model = call.model /\ call' \in Calls
  BY <1>1 DEF Calls, Pcs
<1>3. call.todo = << >> /\ used < MaxLLMCalls
  BY DEF IInv, Underway
<1>4. ToldIds \subseteq ToldIds'
  <2>1. Range(call.todo) = {}
    BY <1>3 DEF Range
  <2> QED
    BY <2>1 DEF ToldIds
<1>5. ~InFlight' /\ Begun' = counter
  BY <1>2 DEF InFlight, Begun
<1>6. {e.id : e \in Range(todo)} \subseteq ToldIds'
  BY <1>2 DEF ToldIds
<1>7. how # "raised" =>
        LET i == Len(ended) + 1
        IN  \E n \in 1 .. MaxCalls :
              /\ <<"verify.completed", Inner(i), n>> \in ToldIds'
              /\ <<IF how = "done" THEN "run.succeeded" ELSE "run.failed_verification",
                   Inner(i), n>> \in ToldIds'
  BY <1>6
<1>8. /\ ended' \in Seq(Endings)
      /\ EndingsInOrder' /\ VerdictIdsTold' /\ StartsTold'
      /\ Len(ended') = Len(ended) + 1
      /\ \A e : IsTrue(e) => IsTrue(e)'
      /\ Cardinality(Raised) \in Nat
      /\ Cardinality(Raised') = Cardinality(Raised) + (IF how = "raised" THEN 1 ELSE 0)
  BY <1>4, <1>5, <1>7, RunEnds DEF Ended
<1>9. TypeOK'
  <2>1. Len(call'.todo) \in 0 .. 2 /\ call'.started \in 0 .. counter'
    BY <1>2 DEF IInv, TypeOK
  <2>2. spans' \subseteq 1 .. Len(ended') + 1
    BY <1>1, <1>8
  <2>3. used' \in Nat
    BY <1>1
  <2> QED
    BY <1>2, <2>1, <2>2, <2>3, TypeStep DEF IInv, TypeOK
<1>10. Records'
  BY <1>2, <1>8 DEF IInv, Records
<1>11. Underway'
  BY <1>2, <1>5 DEF IInv, Underway, InFlight
<1>12. CurrentStartTold'
  BY <1>2, <1>5 DEF CurrentStartTold
<1>13. EventsTrue'
  BY <1>2, <1>8 DEF IInv, EventsTrue
<1>14. EffectsHaveCauses'
  <2>1. \A id : Told(id) => Told(id)'
    BY <1>4, ToldMeans DEF Told, ToldIds
  <2> QED
    BY <2>1 DEF IInv, EffectsHaveCauses
<1>15. OverspendOnlyByRaising'
  <2>1. used' <= MaxLLMCalls /\ used' \in Nat
    BY <1>1, <1>3
  <2>2. Cardinality(Raised') \in Nat /\ spent' <= used' + Cardinality(Raised')
    <3> DEFINE c == Cardinality(Raised)
               d == Cardinality(Raised')
    <3>1. /\ c \in Nat /\ d = c + (IF how = "raised" THEN 1 ELSE 0)
          /\ used' = used + (IF how = "raised" THEN 0 ELSE 1)
          /\ spent' <= used + c + 1 /\ used \in Nat /\ spent' \in Nat
      BY <1>1, <1>8
    <3> HIDE DEF c, d
    <3>2. d \in Nat /\ used' + d = used + c + 1
      <4>1. CASE how = "raised"
        BY <3>1, <4>1
      <4>2. CASE how # "raised"
        BY <3>1, <4>2
      <4> QED
        BY <4>1, <4>2
    <3>3. spent' <= used' + d
      BY <3>1, <3>2
    <3> QED
      BY <3>2, <3>3 DEF d
  <2>3. call'.pc # "candidate"
    BY <1>2
  <2> QED
    BY <2>1, <2>2, <2>3 DEF OverspendOnlyByRaising
<1> QED
  BY <1>8, <1>9, <1>10, <1>11, <1>12, <1>13, <1>14, <1>15 DEF IInv

(* What a run in flight may have spent.                                    *)
LEMMA SpentInFlight ==
  ASSUME IInv, InFlight,
         \/ call.pc = "forward" /\ spent' = spent + 1
         \/ call.pc = "candidate" /\ spent' = spent
  PROVE  spent' \in Nat /\ spent' <= used + Cardinality(Raised) + 1
<1>1. spent \in Nat /\ used \in Nat /\ Cardinality(Raised) \in Nat
  BY RaisedFinite DEF IInv, TypeOK
<1> QED
  BY <1>1 DEF IInv, OverspendOnlyByRaising

(* The run raised.                                                         *)
LEMMA InnerRaisesIInv ==
  ASSUME IInv, InFlight, InnerRaises,
         \/ call.pc = "forward" /\ spent' = spent + 1
         \/ call.pc = "candidate" /\ spent' = spent,
         spans' \subseteq spans,
         UNCHANGED <<counter, processed, cache, store, process, calls, lost>>
  PROVE  IInv'
<1> DEFINE e == Event("run.failed", Outer)
           todo == <<e>>
<1>1. e \in Events /\ e.run = Outer
  BY EventWellFormed, OuterIsRun DEF IInv, Types
<1>2. call' = [call EXCEPT !.pc = "return", !.todo = todo] /\ Ended("raised") /\ used' = used
  BY DEF InnerRaises
<1> HIDE DEF e
<1>3. todo \in Seq(Events) /\ Range(todo) = {e} /\ Len(todo) = 1
  BY <1>1, ShortSequences
<1>4. call.model \in Models \cup {NoText}
  BY DEF IInv, TypeOK
<1>5. \A x \in Range(todo) : IsTrue(x)'
  BY <1>1, <1>3, <1>4 DEF Outer, IsTrue
<1> HIDE DEF todo
<1>6. used \in Nat
  BY DEF IInv, TypeOK
<1>7. spent' \in Nat /\ spent' <= used + Cardinality(Raised) + 1
  BY SpentInFlight
<1> DEFINE how == "raised"
<1>8. /\ how \in {"done", "failed", "raised"} /\ how = "raised" /\ Ended(how)
      /\ used' = used + (IF how = "raised" THEN 0 ELSE 1)
      /\ Len(todo) \in 0 .. 2
  BY <1>2, <1>3, <1>6
<1> HIDE DEF how
<1> QED
  BY <1>2, <1>3, <1>5, <1>7, <1>8, EndedStep

(* It returned its loop.                                                   *)
LEMMA InnerReturnsIInv ==
  ASSUME IInv, InFlight, NEW how \in {"done", "failed"}, InnerReturns(how),
         \/ call.pc = "forward" /\ spent' = spent + 1
         \/ call.pc = "candidate" /\ spent' = spent,
         spans' \subseteq spans,
         UNCHANGED <<counter, processed, cache, store, process, calls, lost>>
  PROVE  IInv'
<1> USE BoundAssumption
<1> DEFINE verdict == IF how = "done" THEN "run.succeeded" ELSE "run.failed_verification"
           n == Len(ended) + 1
           e == Event("verify.completed", Inner(call.run))
           f == Event(verdict, Inner(call.run))
           todo == <<e, f>>
<1>1. call \in Calls /\ n \in Nat \ {0} /\ call.run = n /\ counter \in 1 .. MaxCalls
  <2>1. /\ call \in Calls /\ Len(ended) \in Nat /\ counter \in Nat /\ calls \in Nat
    BY LenProperties DEF IInv, Records, TypeOK
  <2>2. /\ call.run = n /\ counter = call.started + 1 /\ call.started \in Nat
        /\ counter <= calls /\ calls <= MaxCalls
    BY <2>1 DEF IInv, Underway, Calls
  <2> QED
    BY <2>1, <2>2
<1>2. Inner(call.run) \in Runs /\ verdict \in Types /\ "verify.completed" \in Types
  BY <1>1 DEF Inner, Runs, Types, Verdicts
<1> HIDE DEF verdict
<1>3. /\ e \in Events /\ f \in Events
      /\ e.run = Inner(n) /\ e.type = "verify.completed"
      /\ e.id = <<"verify.completed", Inner(n), counter>>
      /\ f.run = Inner(n) /\ f.type = verdict
      /\ f.id = <<verdict, Inner(n), counter>>
  BY <1>1, <1>2, EventWellFormed DEF IInv
<1>4. call' = [call EXCEPT !.pc = "trajectory", !.todo = todo] /\ Ended(how) /\ used' = used + 1
  BY DEF InnerReturns, verdict
<1> HIDE DEF e, f
<1>5. todo \in Seq(Events) /\ Range(todo) = {e, f} /\ Len(todo) = 2
  <2>1. e \in Events /\ f \in Events
    BY <1>3
  <2> HIDE DEF n
  <2> QED
    BY <2>1, PairSequence
<1> HIDE DEF todo
<1>6. /\ n \in DOMAIN ended' /\ ended'[n].how = how
  <2> DEFINE last == [model |-> call.model, run |-> call.run, process |-> process,
                      started |-> call.started, how |-> how]
  <2>1. last \in Endings /\ last.how = how
    BY <1>1 DEF Endings, Calls, IInv, Records
  <2>2. ended' = Append(ended, last)
    BY <1>4 DEF Ended
  <2> HIDE DEF last
  <2> QED
    BY <2>1, <2>2, OneMoreEnded DEF IInv
<1> HIDE DEF n
<1>7. \A x \in Range(todo) : IsTrue(x)'
  <2>1. verdict = IF ended'[n].how = "done" THEN "run.succeeded" ELSE "run.failed_verification"
    BY <1>6 DEF verdict
  <2>2. ended'[n].how # "raised"
    BY <1>6
  <2>3. \A x \in {e, f} : IsTrue(x)'
    <3>1. n \in DOMAIN ended' /\ e.run = Inner(n) /\ f.run = Inner(n)
      BY <1>3, <1>6
    <3>2. e.type \in {"verify.completed", verdict} /\ f.type \in {"verify.completed", verdict}
      BY <1>3
    <3> QED
      BY <3>1, <3>2, <2>1, <2>2 DEF IsTrue, Inner, Verdict
  <2> QED
    BY <1>5, <2>3
<1>8. \E k \in 1 .. MaxCalls :
        /\ <<"verify.completed", Inner(n), k>> \in {x.id : x \in Range(todo)}
        /\ <<verdict, Inner(n), k>> \in {x.id : x \in Range(todo)}
  BY <1>1, <1>3, <1>5
<1>9. spent' \in Nat /\ spent' <= used + Cardinality(Raised) + 1
  BY SpentInFlight
<1>10. used' = used + (IF how = "raised" THEN 0 ELSE 1) /\ Len(todo) \in 0 .. 2
  BY <1>4, <1>5
<1> QED
  BY <1>4, <1>5, <1>7, <1>8, <1>9, <1>10, EndedStep DEF n, verdict

-----------------------------------------------------------------------------
(* The process ends, and with it the run in flight, if there is one.       *)
LEMMA RestartIInv ==
  ASSUME IInv, Restart
  PROVE  IInv'
<1> USE BoundAssumption
<1>1. /\ call' \in Calls /\ call'.pc = "idle" /\ call'.todo = << >> /\ call'.started = 0
      /\ Len(call'.todo) = 0 /\ Range(call'.todo) = {} /\ ~InFlight'
  BY NoCallIsCall DEF Restart, InFlight
<1>2. /\ process \in Nat /\ process' = process + 1 /\ process' \in 0 .. MaxRestarts
      /\ calls \in Nat /\ calls' = calls /\ calls \in 0 .. MaxCalls
      /\ counter' = 0 /\ used' = 0 /\ processed' = 0 /\ spent' = 0 /\ spans' = {}
      /\ UNCHANGED <<cache, store>>
  BY DEF IInv, TypeOK, Records, Restart
<1>3. ToldIds \subseteq ToldIds'
  BY DEF ToldIds, Restart
<1>4. \A id : Told(id) => Told(id)'
  BY <1>3, ToldMeans DEF Told, ToldIds
<1>5. /\ ended' \in Seq(Endings)
      /\ EndingsInOrder' /\ VerdictIdsTold' /\ StartsTold'
      /\ \A e : IsTrue(e) => IsTrue(e)'
  <2>1. CASE InFlight
    <3> DEFINE how == "raised"
    <3>1. ended' = Append(ended, [model |-> call.model, run |-> call.run, process |-> process,
                                  started |-> call.started, how |-> how])
      BY <2>1 DEF Restart, InFlight
    <3>2. how \in {"done", "failed", "raised"} /\ how = "raised" /\ process' # process
      BY <1>2
    <3> HIDE DEF how
    <3> QED
      BY <2>1, <1>2, <1>3, <3>1, <3>2, RunEnds
  <2>2. CASE ~InFlight
    <3>1. ended' = ended
      BY <2>2 DEF Restart, InFlight
    <3>2. EndingsInOrder'
      <4> SUFFICES ASSUME NEW i \in DOMAIN ended
                   PROVE  /\ ended[i].run = i
                          /\ ended[i].process <= process'
                          /\ ended[i].process # process'
        BY <3>1 DEF EndingsInOrder
      <4>1. ended[i].process \in Nat
        BY EndingTypes DEF IInv, Endings
      <4> QED
        BY <4>1, <1>2 DEF IInv, EndingsInOrder
    <3>3. VerdictIdsTold'
      BY <1>4, <3>1 DEF IInv, VerdictIdsTold, Inner, Verdict
    <3>4. StartsTold'
      <4>1. StartsTold
        BY DEF IInv
      <4> QED
        BY <1>4, <3>1, <4>1 DEF StartsTold
    <3>5. \A e : IsTrue(e) => IsTrue(e)'
      BY <3>1 DEF IsTrue, Verdict, Inner
    <3> QED
      BY <3>1, <3>2, <3>3, <3>4, <3>5 DEF IInv, Records
  <2> QED
    BY <2>1, <2>2
<1>6. TypeOK'
  BY <1>1, <1>2, TypeStep DEF IInv, TypeOK
<1>7. Records'
  BY <1>1, <1>2, <1>5 DEF IInv, Records
<1>8. Underway'
  BY <1>1, <1>2 DEF Underway, InFlight
<1>9. CurrentStartTold'
  BY <1>1 DEF CurrentStartTold
<1>10. EventsTrue'
  BY <1>1, <1>2, <1>5 DEF IInv, EventsTrue
<1>11. EffectsHaveCauses'
  BY <1>2, <1>4 DEF IInv, EffectsHaveCauses
<1>12. OverspendOnlyByRaising'
  <2>1. Cardinality(Raised') \in Nat
    <3> DEFINE n == Len(ended')
    <3>1. DOMAIN ended' = 1 .. n /\ n \in Nat
      BY <1>5, LenProperties
    <3> HIDE DEF n
    <3>2. IsFiniteSet(DOMAIN ended')
      <4>1. 1 \in Int /\ n \in Int
        BY <3>1
      <4>2. IsFiniteSet(1 .. n)
        BY <4>1, FS_Interval
      <4> QED
        BY <3>1, <4>2
    <3>3. Raised' \subseteq DOMAIN ended'
      BY DEF Raised
    <3> QED
      BY <3>2, <3>3, FS_Subset, FS_CardinalityType
  <2>2. call'.pc # "candidate"
    BY <1>1
  <2> QED
    BY <1>2, <2>1, <2>2 DEF OverspendOnlyByRaising
<1> QED
  BY <1>5, <1>6, <1>7, <1>8, <1>9, <1>10, <1>11, <1>12 DEF IInv

-----------------------------------------------------------------------------
(* Every step keeps the invariant.                                         *)
LEMMA NextIInv ==
  ASSUME IInv, Next
  PROVE  IInv'
<1>1. ASSUME NEW m \in Models, Call(m) PROVE IInv'
  BY <1>1, CallIInv
<1>2. CASE Deliver
  BY <1>2, DeliverIInv
<1>3. CASE Persist
  BY <1>3, PersistIInv
<1>4. CASE Refuse
  BY <1>4, RefuseIInv
<1>5. CASE Return
  BY <1>5, CallEndsIInv DEF Return
<1>6. CASE Delegate
  BY <1>6, DelegateIInv
<1>7. CASE ForwardCached
  <2>1. call.model \in Models
    BY <1>7 DEF ForwardCached, At, IInv, Underway, InFlight
  <2>2. cache \in [Models -> Texts \cup {NoText}] /\ spent \in Nat
    BY DEF IInv, TypeOK
  <2> DEFINE text == cache[call.model]
  <2>3. text \in Texts \cup {NoText}
    BY <2>1, <2>2
  <2>4. /\ At("forward") /\ call' = [call EXCEPT !.pc = "candidate", !.text = text]
        /\ UNCHANGED <<counter, used, processed, spans, store, process, calls, ended, lost>>
        /\ cache' \in [Models -> Texts \cup {NoText}]
        /\ spent' = spent + 0 /\ 0 \in {0, 1}
    BY <1>7, <2>2 DEF ForwardCached, ghosts
  <2> HIDE DEF text
  <2> QED
    BY <2>3, <2>4, ForwardIInv
<1>8. CASE ForwardServed
  <2>1. PICK text \in Texts :
          /\ cache' = [cache EXCEPT ![call.model] = text]
          /\ call' = [call EXCEPT !.pc = "candidate", !.text = text]
    BY <1>8 DEF ForwardServed
  <2>2. cache' \in [Models -> Texts \cup {NoText}]
    BY <2>1 DEF IInv, TypeOK
  <2>3. /\ At("forward") /\ text \in Texts \cup {NoText} /\ spent' = spent + 1 /\ 1 \in {0, 1}
        /\ UNCHANGED <<counter, used, processed, spans, store, process, calls, ended, lost>>
    BY <1>8 DEF ForwardServed
  <2> QED
    BY <2>1, <2>2, <2>3, ForwardIInv
<1>9. CASE ForwardRaises
  BY <1>9, InnerRaisesIInv DEF ForwardRaises, At, InFlight
<1>10. CASE ForwardError
  <2> DEFINE how == "failed"
  <2>1. InnerReturns(how) /\ how \in {"done", "failed"}
    BY <1>10 DEF ForwardError
  <2> HIDE DEF how
  <2> QED
    BY <1>10, <2>1, InnerReturnsIInv DEF ForwardError, At, InFlight
<1>11. CASE CandidateUnwritten
  BY <1>11, InnerRaisesIInv DEF CandidateUnwritten, At, InFlight
<1>12. CASE Rejected
  <2> DEFINE how == "failed"
  <2>1. InnerReturns(how) /\ how \in {"done", "failed"}
    BY <1>12 DEF Rejected
  <2> HIDE DEF how
  <2> QED
    BY <1>12, <2>1, InnerReturnsIInv DEF Rejected, At, InFlight
<1>13. CASE Verified
  <2> DEFINE how == IF call.text \in Passing THEN "done" ELSE "failed"
  <2>1. InnerReturns(how) /\ how \in {"done", "failed"}
    BY <1>13 DEF Verified
  <2> HIDE DEF how
  <2> QED
    BY <1>13, <2>1, InnerReturnsIInv DEF Verified, At, InFlight
<1>14. CASE SpanEndRaises
  BY <1>14, InnerRaisesIInv DEF SpanEndRaises, At, InFlight
<1>15. CASE TrajectoryRaises
  BY <1>15, CallEndsIInv DEF TrajectoryRaises
<1>16. CASE Restart
  BY <1>16, RestartIInv
<1> QED
  BY <1>1, <1>2, <1>3, <1>4, <1>5, <1>6, <1>7, <1>8, <1>9, <1>10, <1>11, <1>12, <1>13, <1>14,
     <1>15, <1>16 DEF Next, RunStep

LEMMA StutterIInv ==
  ASSUME IInv, UNCHANGED vars
  PROVE  IInv'
<1>1. UNCHANGED <<call, counter, used, processed, spans, cache, store, process, calls, spent,
                  ended, lost>>
  BY DEF vars
<1>2. TypeOK' /\ Records' /\ Underway'
  BY <1>1 DEF IInv, TypeOK, Records, Underway, InFlight
<1>3. EndingsInOrder' /\ CurrentStartTold' /\ EventsTrue' /\ VerdictIdsTold'
  BY <1>1 DEF IInv, EndingsInOrder, Begun, InFlight, CurrentStartTold, EventsTrue, IsTrue, Verdict,
     Inner, VerdictIdsTold, Told
<1>4. StartsTold' /\ EffectsHaveCauses' /\ OverspendOnlyByRaising'
  BY <1>1 DEF IInv, StartsTold, EffectsHaveCauses, Told, OverspendOnlyByRaising, Raised
<1> QED
  BY <1>2, <1>3, <1>4 DEF IInv

LEMMA AlwaysIInv == Spec => []IInv
<1>1. Init => IInv
  BY InitIInv
<1>2. IInv /\ [Next]_vars => IInv'
  BY NextIInv, StutterIInv
<1> QED
  BY <1>1, <1>2, PTL DEF Spec

-----------------------------------------------------------------------------
(* The theorems.                                                           *)

(* Every state is well formed: no call is ahead of the counter that its    *)
(* event ids are made of, and only spans of runs that began are open.      *)
THEOREM ReactiveTypeCorrect == Spec => []TypeOK
<1>1. IInv => TypeOK
  BY DEF IInv
<1> QED
  BY <1>1, AlwaysIInv, PTL

(* The frame bounds what a process spends on the provider: the runner      *)
(* checks its budget before each run, and charges every run but those that *)
(* raised.                                                                 *)
THEOREM OverspendAlwaysByRaising == Spec => []OverspendOnlyByRaising
<1>1. IInv => OverspendOnlyByRaising
  BY DEF IInv
<1> QED
  BY <1>1, AlwaysIInv, PTL

(* The verdicts in the store are those of the loops.                       *)
LEMMA VerdictsAreTold ==
  ASSUME IInv
  PROVE  VerdictsTold
<1> SUFFICES ASSUME NEW i \in DOMAIN ended
             PROVE  LET rows == {r \in Range(store) : /\ r.run = Inner(ended[i].run)
                                                      /\ r.type # "behavior.triggered"}
                        verdict == IF ended[i].how = "done" THEN "run.succeeded"
                                   ELSE "run.failed_verification"
                    IN  /\ {r.type : r \in rows} \subseteq {"verify.completed", verdict}
                        /\ ended[i].how # "raised" =>
                             \E n \in 1 .. MaxCalls :
                               /\ Told(<<"verify.completed", Inner(ended[i].run), n>>)
                               /\ Told(<<verdict, Inner(ended[i].run), n>>)
                        /\ ended[i].how = "raised" => rows = {}
  BY DEF VerdictsTold
<1>1. ended[i].run = i
  BY DEF IInv, EndingsInOrder
<1>2. ASSUME NEW r \in Range(store), r.run = Inner(i), r.type # "behavior.triggered"
      PROVE  ended[i].how # "raised" /\ r.type \in {"verify.completed", Verdict(i)}
  <2>1. IsTrue(r)
    BY <1>2 DEF IInv, EventsTrue
  <2>2. \A m : r.run # <<"reactive", m>>
    BY <1>2 DEF Inner
  <2>3. \A k : r.run = Inner(k) => k = i
    BY <1>2 DEF Inner
  <2> QED
    BY <2>1, <2>2, <2>3 DEF IsTrue
<1>3. ended[i].how # "raised" =>
        \E n \in 1 .. MaxCalls : /\ Told(<<"verify.completed", Inner(i), n>>)
                                 /\ Told(<<Verdict(i), Inner(i), n>>)
  BY DEF IInv, VerdictIdsTold
<1> QED
  BY <1>1, <1>2, <1>3 DEF Verdict

(* Whatever raises, is lost or restarts: the verdict in the store is the   *)
(* one its run ended with, a run of one process has a start of its own,    *)
(* and an effect has its cause, unless an append failed.                   *)
THEOREM StoreAlwaysTellsRuns == Spec => []StoreTellsRuns
<1>1. IInv => StoreTellsRuns
  BY VerdictsAreTold DEF IInv, StoreTellsRuns
<1> QED
  BY <1>1, AlwaysIInv, PTL
=============================================================================

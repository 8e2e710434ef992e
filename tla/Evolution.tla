----------------------------- MODULE Evolution ------------------------------
(***************************************************************************)
(* The evolution engine, the engine over several domains, and the compiler,*)
(* SQL and IaC optimization loops, over the domains of Evolvables.         *)
(*                                                                         *)
(* A session starts from one or two entries, each a genome with the        *)
(* baseline it is measured against.  One entry of a domain that has a loop *)
(* may be handed to that loop; any session may be evolved, and its caller  *)
(* may make the promoted genomes the next baselines, as the engine's usage *)
(* shows.  Both roads use the same tool and promise an improvement only    *)
(* where one was measured.                                                 *)
(***************************************************************************)
EXTENDS Evolvables, FiniteSets

CONSTANTS
  Candidates,     (* per domain: the [kind, knob] a genome is made of      *)
  Baselines,      (* per domain: the metrics a genome is measured against  *)
  MaxCandidates,  (* bound: candidates of a genome                         *)
  PairDomains,    (* bound: domains of a session with two entries          *)
  MaxIterations,  (* max_iterations of the engine                          *)
  Limits          (* values of max_candidates and of max_cycles            *)

Domains == {"compiler", "sql", "iac", "security", "ml", "network", "storage", "log"}
LoopDomains == {"compiler", "sql", "iac"}

KindsOf(d) ==
  CASE d = "compiler" -> CompilerKinds
    [] d = "sql" -> SQLKinds
    [] d = "iac" -> IaCKinds
    [] d = "security" -> SecurityKinds
    [] d = "ml" -> MLKinds
    [] d = "network" -> NetworkKinds
    [] d = "storage" -> StorageKinds
    [] d = "log" -> LogKinds

MetricsOf(d) ==
  CASE d = "compiler" -> CompilerMetrics
    [] d = "sql" -> SQLMetrics
    [] d = "iac" -> IaCMetrics
    [] d = "security" -> SecurityMetrics
    [] d = "ml" -> MLMetrics
    [] d = "network" -> NetworkMetrics
    [] d = "storage" -> StorageMetrics
    [] d = "log" -> LogMetrics

ASSUME EvolutionAssumption ==
  /\ MaxCandidates \in Nat
  /\ PairDomains \subseteq Domains
  /\ MaxIterations \in Nat \ {0}
  /\ Limits \subseteq Int
  /\ \A d \in Domains : /\ Candidates[d] \subseteq [kind : KindsOf(d), knob : Int]
                        /\ Baselines[d] \subseteq MetricsOf(d)

Genomes(d, n, legal) ==
  UNION {[1 .. k -> {[kind |-> c.kind, knob |-> c.knob, legal |-> l] :
                       c \in Candidates[d], l \in legal}] : k \in n}
Entries(ds, n, legal, valid) ==
  UNION {[domain : {d}, base : [metrics : Baselines[d], valid : valid],
          genome : Genomes(d, n, legal)] : d \in ds}

VARIABLES
  entries,    (* what the session works on: [domain, base, genome]         *)
  limit,      (* max_candidates of the datasets, max_cycles of a loop      *)
  stage,      (* "start", "loop", "evolve", "picked", "done"               *)
  loop,       (* an optimization loop's locals                             *)
  iteration,  (* of the engine, on entry Len(results) + 1                  *)
  results,    (* PromotionResults: [promoted, genome, fitness, iterations] *)
  winner      (* position of best_promoted, 0 for None                     *)

evolutionVars == <<entries, limit, stage, loop, iteration, results, winner>>

NoLoop == [status |-> "none"]

EvolutionInit ==
  /\ \/ \E e \in Entries(Domains, 0 .. MaxCandidates, BOOLEAN, BOOLEAN) : entries = <<e>>
     \/ entries \in [1 .. 2 -> Entries(PairDomains, {1}, {TRUE}, {TRUE})]
  /\ limit \in Limits
  /\ stage = "start"
  /\ loop = NoLoop
  /\ iteration = 0
  /\ results = << >>
  /\ winner = 0

-----------------------------------------------------------------------------
(* The optimization loops.                                                 *)

NoGap == "no_gap"

(* compiler_gap_detector.classify_gap, of metrics a tool returned.         *)
ClassifyGap(old, new) ==
  LET faster == new.cycles < old.cycles
      slower == new.cycles > old.cycles
  IN CASE faster /\ new.spills <= old.spills -> NoGap
       [] faster /\ new.spills > 2 * old.spills -> "register_spill"
       [] slower /\ new.spills < old.spills -> "transform_regression"
       [] slower /\ new.spills >= old.spills -> "perf_regression"
       [] OTHER -> "missing_transform"

(* Mutant: no fewer rows than before are no gap either.                    *)
ClassifySQLGapNotWorse(old, new, valid) ==
  IF valid /\ new.examined <= old.examined /\ new.time <= old.time
  THEN NoGap
  ELSE "missing_index"

ClassifySQLGap(old, new, valid) ==
  LET better == new.examined < old.examined
      worse == new.examined > old.examined
  IN CASE ~valid -> "missing_index"
       [] valid /\ better /\ new.returned <= old.returned /\ new.time <= old.time -> NoGap
       [] valid /\ worse /\ new.returned > old.returned -> "cost_regression"
       [] valid /\ better /\ new.returned > old.returned /\ new.returned >= 2 * old.returned ->
            "inefficient_aggregate"
       [] valid /\ worse /\ new.returned < old.returned -> "wrong_join_order"
       [] valid /\ new.examined = old.examined /\ new.returned = old.returned
            /\ new.time < old.time -> NoGap
       [] OTHER -> "missing_index"

ClassifyIaCGap(old, new, valid) ==
  LET better == new.resources < old.resources
      worse == new.resources > old.resources
  IN CASE ~valid -> "unused_variable"
       [] valid /\ better /\ new.variables <= old.variables /\ new.drift <= old.drift -> NoGap
       [] valid /\ worse /\ new.variables > old.variables -> "cost_regression"
       [] valid /\ better /\ new.variables > old.variables -> "missing_output"
       [] valid /\ worse /\ new.variables < old.variables -> "circular_dependency"
       [] valid /\ new.resources = old.resources /\ new.variables = old.variables
            /\ new.drift > old.drift -> "drift_detected"
       [] OTHER -> "unused_variable"

(* A policy is told by the gaps it answers with a replan, a gap it does    *)
(* not map being one of them: the default one, or one gap more.            *)
GapClasses(d) ==
  CASE d = "compiler" -> {"missing_transform", "register_spill", "transform_regression", "perf_regression"}
    [] d = "sql" -> {"missing_index", "inefficient_aggregate", "wrong_join_order"}
    [] d = "iac" -> {"unused_variable", "missing_output", "circular_dependency"}
DefaultReplans(d) ==
  CASE d = "compiler" -> {}
    [] d = "sql" -> {"cost_regression"}
    [] d = "iac" -> {"cost_regression", "drift_detected"}
Policies(d) == {DefaultReplans(d)} \cup {DefaultReplans(d) \cup {gap} : gap \in GapClasses(d)}

Replan(current) == [status |-> "replan_required", final |-> current]
Accept(metrics) == [status |-> "completed", final |-> [metrics |-> metrics, valid |-> TRUE]]
Continue(current) == [status |-> "running", final |-> current]

(* One candidate of the compiler loop: a tool that fails skips it; the gap *)
(* between current and new may end the loop before the gate is asked.      *)
CompilerCandidate(c, current, replans) ==
  LET new == CompilerApply(c, current.metrics)
      Routed(gap) == IF gap = NoGap THEN "missing_transform" ELSE gap
  IN IF \E m \in new : Routed(ClassifyGap(current.metrics, m)) \in replans
     THEN Replan(current)
     ELSE IF CompilerImproving(<<c>>, current) # {}
          THEN Accept(CHOOSE m \in new : TRUE)
          ELSE Continue(current)

(* One candidate of the two plan loops: the gap is the one between the     *)
(* baseline and current, before the tool is asked.                         *)
PlanCandidate(gap, better, current, replans) ==
  IF gap = NoGap THEN Accept(current.metrics)
  ELSE IF gap \in replans THEN Replan(current)
  ELSE IF better # {} THEN Accept(CHOOSE m \in better : TRUE)
  ELSE Continue(current)

SQLCandidate(c, base, current, replans) ==
  PlanCandidate(ClassifySQLGap(base.metrics, current.metrics, current.valid),
                SQLImproving(<<c>>, current), current, replans)

IaCCandidate(c, base, current, replans) ==
  PlanCandidate(ClassifyIaCGap(base.metrics, current.metrics, current.valid),
                IaCImproving(<<c>>, current), current, replans)

Tried(c, e) ==
  CASE e.domain = "compiler" -> CompilerCandidate(c, loop.final, loop.replans)
    [] e.domain = "sql" -> SQLCandidate(c, e.base, loop.final, loop.replans)
    [] e.domain = "iac" -> IaCCandidate(c, e.base, loop.final, loop.replans)

MaxCycles == Greatest(1, limit)

Optimize ==
  /\ stage = "start" /\ Len(entries) = 1 /\ entries[1].domain \in LoopDomains
  /\ \E replans \in Policies(entries[1].domain) :
       loop' = [status |-> "running", final |-> entries[1].base, accepted |-> 0,
                tried |-> 0, iterations |-> 0, replans |-> replans, tool |-> TRUE]
  /\ stage' = "loop"
  /\ UNCHANGED <<entries, limit, iteration, results, winner>>

(* Without a tool the compiler loop gives up at its first candidate, the   *)
(* plan loops before it.                                                   *)
OptimizeWithoutTool ==
  /\ stage = "start" /\ Len(entries) = 1 /\ entries[1].domain \in LoopDomains
  /\ entries[1].genome # << >>
  /\ LET compiler == entries[1].domain = "compiler"
         count == IF compiler THEN 1 ELSE 0
     IN loop' = [status |-> IF compiler THEN "no_improvement" ELSE "failed",
                 final |-> entries[1].base, accepted |-> 0, tried |-> count,
                 iterations |-> count, replans |-> {}, tool |-> FALSE]
  /\ stage' = "done"
  /\ UNCHANGED <<entries, limit, iteration, results, winner>>

TryCandidate ==
  /\ stage = "loop"
  /\ loop.tried < Least(MaxCycles, Len(entries[1].genome))
  /\ LET o == Tried(entries[1].genome[loop.tried + 1], entries[1])
     IN /\ loop' = [loop EXCEPT !.status = o.status, !.final = o.final,
                                !.accepted = IF o.status = "completed" THEN @ + 1 ELSE @,
                                !.tried = @ + 1, !.iterations = @ + 1]
        /\ stage' = IF o.status = "running" THEN "loop" ELSE "done"
  /\ UNCHANGED <<entries, limit, iteration, results, winner>>

(* Out of cycles or of candidates; the compiler loop has then counted the  *)
(* iteration in which it found none.                                       *)
OutOfCandidates ==
  /\ stage = "loop"
  /\ loop.tried = Least(MaxCycles, Len(entries[1].genome))
  /\ loop' = [loop EXCEPT
                !.status = "no_improvement",
                !.iterations = IF entries[1].domain = "compiler" /\ loop.tried < MaxCycles
                               THEN @ + 1 ELSE @]
  /\ stage' = "done"
  /\ UNCHANGED <<entries, limit, iteration, results, winner>>

-----------------------------------------------------------------------------
(* The engines.                                                            *)

Measure(e, g) ==
  CASE e.domain = "compiler" -> CompilerEvaluate(g, e.base)
    [] e.domain = "sql" -> SQLEvaluate(g, e.base)
    [] e.domain = "iac" -> IaCEvaluate(g, e.base)
    [] e.domain = "security" -> SecurityEvaluate(g, e.base)
    [] e.domain = "ml" -> MLEvaluate(g, e.base)
    [] e.domain = "network" -> NetworkEvaluate(g, e.base)
    [] e.domain = "storage" -> StorageEvaluate(g, e.base)
    [] e.domain = "log" -> LogEvaluate(g, e.base)

Evaluate(e, genome) == Measure(e, Prefix(genome, limit))

Mutate(e) ==
  CASE e.domain = "compiler" -> CompilerMutate(e.genome)
    [] e.domain = "sql" -> SQLMutate(e.genome)
    [] e.domain = "iac" -> IaCMutate(e.genome)
    [] e.domain = "security" -> SecurityMutate(e.genome)
    [] e.domain = "ml" -> MLMutate(e.genome)
    [] e.domain = "network" -> NetworkMutate(e.genome)
    [] e.domain = "storage" -> StorageMutate(e.genome)
    [] e.domain = "log" -> LogMutate(e.genome)

Evolve ==
  /\ stage = "start"
  /\ stage' = "evolve"
  /\ UNCHANGED <<entries, limit, loop, iteration, results, winner>>

Current == entries[Len(results) + 1]

(* One iteration: the best genome, so far the baseline's, is mutated and   *)
(* measured, and the first that is fitter is promoted.                     *)
Iterate ==
  /\ stage = "evolve" /\ Len(results) < Len(entries) /\ iteration < MaxIterations
  /\ \E candidate \in {Mutate(Current)} :
     \E fitness \in {Evaluate(Current, candidate)}, best \in {Evaluate(Current, Current.genome)} :
        IF FitterThan(fitness, best)
        THEN /\ results' = Append(results, [promoted |-> TRUE, genome |-> candidate,
                                            fitness |-> fitness, iterations |-> iteration + 1])
             /\ iteration' = 0
        ELSE iteration' = iteration + 1 /\ UNCHANGED results
  /\ UNCHANGED <<entries, limit, stage, loop, winner>>

Retain ==
  /\ stage = "evolve" /\ Len(results) < Len(entries) /\ iteration = MaxIterations
  /\ results' = Append(results, [promoted |-> FALSE, genome |-> Current.genome,
                                 fitness |-> Evaluate(Current, Current.genome),
                                 iterations |-> MaxIterations])
  /\ iteration' = 0
  /\ UNCHANGED <<entries, limit, stage, loop, winner>>

(* The promotion of highest quality, then lowest cost, then first seen.    *)
BestPromoted ==
  LET Takes(i, best) ==
        /\ results[i].promoted
        /\ \/ best = 0
           \/ Less(results[best].fitness.quality, results[i].fitness.quality)
           \/ /\ ~Less(results[i].fitness.quality, results[best].fitness.quality)
              /\ results[i].fitness.cost < results[best].fitness.cost
      upTo[i \in 0 .. Len(results)] ==
        IF i = 0 THEN 0 ELSE IF Takes(i, upTo[i - 1]) THEN i ELSE upTo[i - 1]
  IN upTo[Len(results)]

Pick ==
  /\ stage = "evolve" /\ Len(results) = Len(entries)
  /\ winner' = BestPromoted
  /\ stage' = "picked"
  /\ UNCHANGED <<entries, limit, loop, iteration, results>>

(* new_genome = result.promoted_genome, and another run.                   *)
Adopt ==
  /\ stage = "picked" /\ winner # 0
  /\ entries' = [i \in DOMAIN entries |-> [entries[i] EXCEPT !.genome = results[i].genome]]
  /\ results' = << >>
  /\ winner' = 0
  /\ stage' = "evolve"
  /\ UNCHANGED <<limit, loop, iteration>>

Finish ==
  /\ stage = "picked"
  /\ stage' = "done"
  /\ UNCHANGED <<entries, limit, loop, iteration, results, winner>>

EvolutionNext ==
  \/ Optimize \/ OptimizeWithoutTool \/ TryCandidate \/ OutOfCandidates
  \/ Evolve \/ Iterate \/ Retain \/ Pick \/ Adopt \/ Finish

EvolutionSpec == EvolutionInit /\ [][EvolutionNext]_evolutionVars
FairEvolutionSpec == EvolutionSpec /\ WF_evolutionVars(EvolutionNext)

-----------------------------------------------------------------------------
(* Properties.                                                             *)

(* The two ways to use one tool agree: an optimization loop completes with *)
(* exactly one acceptance, at the first candidate the engine's evaluation  *)
(* calls an improvement, and returns what it measured; otherwise it gives  *)
(* the baseline back, and with the default policy only when the evaluation *)
(* calls every candidate it had cycles for a regression.  The exception is *)
(* a compiler baseline that counts cache misses, which the tool forgets.   *)
LoopAgreesWithFitness ==
  stage = "done" /\ loop # NoLoop =>
    LET e == entries[1]
        tried == SubSeq(e.genome, 1, loop.tried)
        forgets == e.domain = "compiler" /\ e.base.metrics.misses > 0
        Primary(m) ==
          CASE e.domain = "compiler" -> m.cycles
            [] e.domain = "sql" -> m.examined
            [] e.domain = "iac" -> m.resources
    IN IF loop.status = "completed"
       THEN /\ loop.accepted = 1
            /\ \A i \in 1 .. loop.tried - 1 : Measure(e, <<e.genome[i]>>).regression
            /\ \/ forgets
               \/ LET last == Measure(e, <<e.genome[loop.tried]>>)
                      gain == Ratio(Primary(e.base.metrics), Primary(loop.final.metrics))
                  IN ~last.regression /\ (last.quality = gain \/ Less(gain, Zero) \/ gain[1] = 0)
       ELSE /\ loop.accepted = 0 /\ loop.final = e.base
            /\ loop.tool /\ loop.status = "no_improvement" => Measure(e, tried).regression
            /\ loop.status = "replan_required" => loop.replans # DefaultReplans(e.domain)

(* A promotion is what was measured: it comes in the first iteration, the  *)
(* promoted genome differs from the baseline genome in the knob of one     *)
(* candidate that is evaluated, and this candidate alone measures the      *)
(* reported quality, which beats the baseline genome's, or the baseline    *)
(* genome improved nothing.                                                *)
PromotionsMeasured ==
  stage = "picked" => \A i \in DOMAIN results :
    LET e == entries[i]
        r == results[i]
        before == Evaluate(e, e.genome)
    IN IF r.promoted
       THEN /\ r.iterations = 1
            /\ \E k \in DOMAIN Prefix(e.genome, limit) :
                 LET alone == Measure(e, <<r.genome[k]>>)
                 IN /\ r.genome = [e.genome EXCEPT ![k].knob = r.genome[k].knob]
                    /\ r.genome # e.genome
                    /\ ~alone.regression /\ alone.quality = r.fitness.quality
                    /\ before.regression \/ Less(before.quality, alone.quality)
       ELSE r.genome = e.genome

(* The best promotion of several is a promotion, none has a higher quality *)
(* or the same at a lower cost, and of equals it is the first.             *)
WinnerIsBest ==
  LET promoted == {i \in DOMAIN results : results[i].promoted}
      Fitter(i, j) ==
        LET f == results[i].fitness
            g == results[j].fitness
        IN \/ Less(g.quality, f.quality)
           \/ ~Less(f.quality, g.quality) /\ f.cost < g.cost
  IN stage = "picked" =>
       IF promoted = {} THEN winner = 0
       ELSE /\ winner \in promoted
            /\ \A i \in promoted : ~Fitter(i, winner) /\ (i < winner => Fitter(winner, i))

ReportIsMeasured == PromotionsMeasured /\ WinnerIsBest

(* A caller who keeps evolving the promoted genomes comes to an end: every *)
(* knob has a cap, and a genome at its caps, which some mutations make     *)
(* anew, is not fitter than itself.                                        *)
EvolutionConverges == <>(stage = "done")

=============================================================================

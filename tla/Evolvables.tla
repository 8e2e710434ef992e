---------------------------- MODULE Evolvables ------------------------------
(***************************************************************************)
(* The eight domains the evolution engine and the optimization loops work  *)
(* on: what a tool stub measures when a candidate is applied to a          *)
(* baseline, how metrics are ranked, which candidates a mutation changes,  *)
(* and the fitness of a genome.                                            *)
(*                                                                         *)
(* A candidate is [kind, knob, legal]; the knob is the one number its kind *)
(* takes (an absent one is its default), 0 for a kind without one.  Real   *)
(* numbers are integers in the units given with each domain, so the        *)
(* rounding of binary fractions is left out.                               *)
(***************************************************************************)
EXTENDS Integers, Sequences

Least(a, b) == IF a < b THEN a ELSE b
Greatest(a, b) == IF a > b THEN a ELSE b
Minus(a, b) == Greatest(0, a - b)

Power(b, k) ==
  LET p[n \in 0 .. k] == IF n = 0 THEN 1 ELSE b * p[n - 1]
  IN p[k]

(* Ranks are compared component by component, smaller is better.           *)
Below(r, s) ==
  \E i \in DOMAIN r : r[i] < s[i] /\ \A j \in 1 .. i - 1 : r[j] = s[j]

(* genome[:n], as Python slices it.                                        *)
Prefix(g, n) ==
  SubSeq(g, 1, IF n >= 0 THEN Least(n, Len(g)) ELSE Minus(Len(g), -n))

-----------------------------------------------------------------------------
(* Fitness.  Qualities are fractions <<numerator, denominator>>.           *)

Zero == <<0, 1>>
Less(p, q) == p[1] * q[2] < q[1] * p[2]
Ratio(old, new) == IF old > 0 THEN <<old - new, old>> ELSE Zero

(* Every domain evaluates alike: each candidate is measured against the    *)
(* baseline; a tool's failure yields no metrics.  A valid measure beats an *)
(* invalid baseline whatever it says.                                      *)
Beats(rank, base, baseRank) == ~base.valid \/ Below(rank, baseRank)

(* The reductions are those of the candidates that beat the baseline.      *)
Fitness(g, reductions) ==
  [quality |-> CHOOSE q \in reductions \cup {Zero} : \A r \in reductions \cup {Zero} : ~Less(q, r),
   cost |-> Len(g),
   regression |-> reductions = {}]

(* Mutant: as good is good enough.                                         *)
FitterOrEqual(f, other) ==
  ~f.regression /\ (other.regression \/ ~Less(f.quality, other.quality))

(* FitnessSignal.better_than; the latency is the same constant everywhere. *)
FitterThan(f, other) ==
  /\ ~f.regression
  /\ \/ other.regression
     \/ Less(other.quality, f.quality)
     \/ ~Less(f.quality, other.quality) /\ f.cost < other.cost

(* The first candidate that can be bumped gets its new knob.  One that is  *)
(* made anew counts as bumped even when it is equal.                       *)
MutateFirst(g, bumpable, knobs) ==
  [i \in DOMAIN g |-> IF i \in bumpable /\ \A j \in bumpable : i <= j
                      THEN [g[i] EXCEPT !.knob = knobs[i]]
                      ELSE g[i]]

-----------------------------------------------------------------------------
(* Compiler.  Cache misses are no part of what the tool is told and        *)
(* returns: they come back as 0.  (Energy moves with the cycles.)          *)

CompilerKinds == {"tile", "interchange", "fusion", "unroll"}
CompilerMetrics == [cycles : Nat, spills : Nat, misses : Nat]

CompilerApply(c, m) ==
  IF ~c.legal THEN {}
  ELSE CASE c.kind = "tile" /\ c.knob > 0 ->
            {[cycles |-> Greatest(1, m.cycles \div c.knob),
              spills |-> m.spills + (c.knob + 15) \div 16, misses |-> 0]}
       [] c.kind = "interchange" -> {[m EXCEPT !.misses = 0]}
       [] c.kind = "fusion" /\ c.knob > 0 ->
            {[cycles |-> Greatest(1, (2 * m.cycles * Power(7, c.knob) + Power(10, c.knob)) \div (2 * Power(10, c.knob))),
              spills |-> Minus(m.spills, 1), misses |-> 0]}
       [] c.kind = "unroll" /\ c.knob > 1 ->
            {[cycles |-> Greatest(1, m.cycles \div c.knob),
              spills |-> Minus(m.spills, 1), misses |-> 0]}
       [] OTHER -> {}

CompilerRank(m) == <<m.cycles, m.spills, m.misses>>
CompilerImproving(g, base) ==
  {m \in UNION {CompilerApply(g[i], base.metrics) : i \in DOMAIN g} :
     Beats(CompilerRank(m), base, CompilerRank(base.metrics))}
CompilerReduction(old, new) == Ratio(old.cycles, new.cycles)

CompilerBump(c) ==
  CASE c.kind = "tile" -> Least(256, c.knob + 8)
    [] c.kind = "unroll" -> Least(16, c.knob * 2)
    [] c.kind = "fusion" -> Least(4, c.knob + 1)
    [] OTHER -> c.knob

CompilerBumpable(c) == CompilerBump(c) # c.knob
CompilerMutate(g) ==
  MutateFirst(g, {i \in DOMAIN g : CompilerBumpable(g[i])}, [i \in DOMAIN g |-> CompilerBump(g[i])])
CompilerEvaluate(g, base) ==
  LET told == [base EXCEPT !.metrics.misses = 0]
  IN Fitness(g, {CompilerReduction(base.metrics, m) : m \in CompilerImproving(g, told)})

-----------------------------------------------------------------------------
(* SQL plans.  time in units that 0.85 divides evenly.                     *)

SQLKinds == {"add_index", "reorder_joins", "rewrite_as_join", "replan_query"}
SQLMetrics == [examined : Nat, returned : Nat, time : Nat]

SQLApply(c, m) ==
  LET fewer == [m EXCEPT !.examined = Greatest(1, @ \div c.knob)]
  IN IF ~c.legal THEN {}
     ELSE CASE c.kind = "add_index" /\ c.knob >= 1 -> {fewer}
          [] c.kind = "reorder_joins" /\ c.knob >= 1 ->
               {[fewer EXCEPT !.time = (@ * 85) \div 100]}
          [] c.kind = "rewrite_as_join" /\ c.knob >= 1 -> {[fewer EXCEPT !.time = Minus(@, 5)]}
          [] c.kind = "replan_query" -> {[m EXCEPT !.time = Minus(@, 10)]}
          [] OTHER -> {}

SQLRank(m) == <<m.examined, m.returned, m.time>>
SQLImproving(g, base) ==
  {m \in UNION {SQLApply(g[i], base.metrics) : i \in DOMAIN g} :
     Beats(SQLRank(m), base, SQLRank(base.metrics))}
SQLReduction(old, new) == Ratio(old.examined, new.examined)

SQLBump(c) ==
  CASE c.kind = "add_index" -> Least(16, c.knob + 1)
    [] c.kind \in {"reorder_joins", "rewrite_as_join"} -> Least(8, c.knob + 1)
    [] OTHER -> c.knob

SQLBumpable(c) == SQLBump(c) # c.knob

(* Mutant: every candidate is bumped.                                      *)
SQLMutateAll(g) == [i \in DOMAIN g |-> [g[i] EXCEPT !.knob = SQLBump(g[i])]]

SQLMutate(g) ==
  MutateFirst(g, {i \in DOMAIN g : SQLBumpable(g[i])}, [i \in DOMAIN g |-> SQLBump(g[i])])
SQLEvaluate(g, base) ==
  Fitness(g, {SQLReduction(base.metrics, m) : m \in SQLImproving(g, base)})

-----------------------------------------------------------------------------
(* Infrastructure plans.  No kind has a knob.  (Modules are not ranked.)   *)

IaCKinds == {"remove_unused", "add_output", "restructure_dep", "replan_providers"}
IaCMetrics == [resources : Nat, variables : Nat, drift : Nat]

IaCApply(c, m) ==
  IF ~c.legal THEN {}
  ELSE CASE c.kind = "remove_unused" -> {[m EXCEPT !.variables = Minus(@, 1)]}
       [] c.kind = "add_output" -> {[m EXCEPT !.resources = @ + 1]}
       [] c.kind = "restructure_dep" -> {m}
       [] c.kind = "replan_providers" ->
            {[m EXCEPT !.resources = @ \div 2, !.drift = @ \div 2]}

IaCRank(m) == <<m.resources, m.variables, m.drift>>
IaCImproving(g, base) ==
  {m \in UNION {IaCApply(g[i], base.metrics) : i \in DOMAIN g} :
     Beats(IaCRank(m), base, IaCRank(base.metrics))}
IaCReduction(old, new) == Ratio(old.resources, new.resources)
IaCBump(c) == c.knob
IaCBumpable(c) == FALSE
IaCMutate(g) ==
  MutateFirst(g, {i \in DOMAIN g : IaCBumpable(g[i])}, [i \in DOMAIN g |-> IaCBump(g[i])])
IaCEvaluate(g, base) ==
  Fitness(g, {IaCReduction(base.metrics, m) : m \in IaCImproving(g, base)})

-----------------------------------------------------------------------------
(* Security audits.  risk in tenths, coverage in hundredths.  From here on *)
(* a bumped candidate is a new object even at its cap.                     *)

SecurityKinds == {"patch", "add_control", "isolate", "quarantine"}
SecurityMetrics == [threats : Nat, risk : Nat, coverage : Nat]

SecurityApply(c, m) ==
  IF ~c.legal THEN {}
  ELSE CASE c.kind = "patch" /\ c.knob >= 1 ->
            {[m EXCEPT !.threats = Minus(@, c.knob), !.risk = @ \div 2]}
       [] c.kind = "add_control" /\ c.knob >= 1 ->
            {[m EXCEPT !.coverage = Least(100, @ + 10 * c.knob), !.risk = (@ * 8) \div 10]}
       [] c.kind = "isolate" -> {[m EXCEPT !.threats = @ \div 2]}
       [] c.kind = "quarantine" -> {[m EXCEPT !.threats = @ \div 4]}
       [] OTHER -> {}

SecurityRank(m) == <<m.threats, m.risk, -m.coverage>>
SecurityImproving(g, base) ==
  {m \in UNION {SecurityApply(g[i], base.metrics) : i \in DOMAIN g} :
     Beats(SecurityRank(m), base, SecurityRank(base.metrics))}
SecurityReduction(old, new) == Ratio(old.threats, new.threats)

SecurityBump(c) == IF c.kind = "patch" THEN Least(64, c.knob + 1) ELSE Least(8, c.knob + 1)
SecurityBumpable(c) == c.kind \in {"patch", "add_control"}
SecurityMutate(g) ==
  MutateFirst(g, {i \in DOMAIN g : SecurityBumpable(g[i])}, [i \in DOMAIN g |-> SecurityBump(g[i])])
SecurityEvaluate(g, base) ==
  Fitness(g, {SecurityReduction(base.metrics, m) : m \in SecurityImproving(g, base)})

-----------------------------------------------------------------------------
(* Training runs.  loss and lr_factor in 1/6400, accuracy in hundredths.   *)

MLKinds == {"adjust_lr", "prune_layer", "add_regularization", "switch_optimizer"}
MLMetrics == [loss : Nat, accuracy : Nat, epochs : Nat]

MLApply(c, m) ==
  IF ~c.legal THEN {}
  ELSE CASE c.kind = "adjust_lr" /\ 0 < c.knob /\ c.knob <= 6400 ->
            {[m EXCEPT !.loss = (@ * c.knob) \div 6400, !.epochs = Minus(@, 5)]}
       [] c.kind = "prune_layer" /\ c.knob >= 1 ->
            {[m EXCEPT !.loss = @ + 64 * c.knob, !.epochs = Minus(@, 10)]}
       [] c.kind = "add_regularization" ->
            {[m EXCEPT !.loss = (@ * 95) \div 100, !.accuracy = Least(100, @ + 5)]}
       [] c.kind = "switch_optimizer" ->
            {[m EXCEPT !.loss = (@ * 8) \div 10, !.epochs = Minus(@, 20)]}
       [] OTHER -> {}

MLRank(m) == <<m.loss, -m.accuracy, m.epochs>>
MLImproving(g, base) ==
  {m \in UNION {MLApply(g[i], base.metrics) : i \in DOMAIN g} :
     Beats(MLRank(m), base, MLRank(base.metrics))}
MLReduction(old, new) == Ratio(old.loss, new.loss)

MLBump(c) == IF c.kind = "adjust_lr" THEN Greatest(64, c.knob \div 2) ELSE Least(32, c.knob + 1)
MLBumpable(c) == c.kind \in {"adjust_lr", "prune_layer"}
MLMutate(g) ==
  MutateFirst(g, {i \in DOMAIN g : MLBumpable(g[i])}, [i \in DOMAIN g |-> MLBump(g[i])])
MLEvaluate(g, base) ==
  Fitness(g, {MLReduction(base.metrics, m) : m \in MLImproving(g, base)})

-----------------------------------------------------------------------------
(* Networks.  The knob of compress is never mutated.                       *)

NetworkKinds == {"reroute", "compress", "add_cache", "switch_protocol"}
NetworkMetrics == [latency : Nat, bandwidth : Nat, loss : Nat]

NetworkApply(c, m) ==
  IF ~c.legal THEN {}
  ELSE CASE c.kind = "reroute" -> {[m EXCEPT !.latency = (@ * 7) \div 10]}
       [] c.kind = "compress" /\ c.knob >= 1 ->
            {[m EXCEPT !.bandwidth = (@ * 3) \div 2, !.latency = @ + 2 * c.knob]}
       [] c.kind = "add_cache" ->
            {[m EXCEPT !.latency = @ \div 2, !.bandwidth = @ + 50]}
       [] c.kind = "switch_protocol" ->
            {[m EXCEPT !.latency = (@ * 8) \div 10, !.loss = (@ * 3) \div 10]}
       [] OTHER -> {}

NetworkRank(m) == <<m.latency, -m.bandwidth, m.loss>>
NetworkImproving(g, base) ==
  {m \in UNION {NetworkApply(g[i], base.metrics) : i \in DOMAIN g} :
     Beats(NetworkRank(m), base, NetworkRank(base.metrics))}
NetworkReduction(old, new) == Ratio(old.latency, new.latency)
NetworkMutate(g) == g
NetworkEvaluate(g, base) ==
  Fitness(g, {NetworkReduction(base.metrics, m) : m \in NetworkImproving(g, base)})

-----------------------------------------------------------------------------
(* Storage.  The ratio of compress in hundredths.                          *)

StorageKinds == {"compress", "partition", "shard", "reindex"}
StorageMetrics == [bytes : Nat, latency : Nat]

StorageApply(c, m) ==
  IF ~c.legal THEN {}
  ELSE CASE c.kind = "compress" /\ c.knob \in 1 .. 99 ->
            {[m EXCEPT !.bytes = (@ * (100 - c.knob)) \div 100, !.latency = @ + 1]}
       [] c.kind \in {"partition", "shard"} /\ c.knob >= 2 ->
            {[m EXCEPT !.latency = @ \div c.knob]}
       [] c.kind = "reindex" -> {[m EXCEPT !.latency = @ \div 2]}
       [] OTHER -> {}

StorageRank(m) == <<m.bytes, m.latency>>
StorageImproving(g, base) ==
  {m \in UNION {StorageApply(g[i], base.metrics) : i \in DOMAIN g} :
     Beats(StorageRank(m), base, StorageRank(base.metrics))}
StorageReduction(old, new) == Ratio(old.bytes, new.bytes)
StorageBump(c) == Least(90, c.knob + 10)
StorageBumpable(c) == c.kind = "compress"
StorageMutate(g) ==
  MutateFirst(g, {i \in DOMAIN g : StorageBumpable(g[i])}, [i \in DOMAIN g |-> StorageBump(g[i])])
StorageEvaluate(g, base) ==
  Fitness(g, {StorageReduction(base.metrics, m) : m \in StorageImproving(g, base)})

-----------------------------------------------------------------------------
(* Logs.  The rate of sample in hundredths.  (parse_time is not ranked.)   *)

LogKinds == {"filter", "aggregate", "sample", "rotate"}
LogMetrics == [errors : Nat, volume : Nat]

LogApply(c, m) ==
  IF ~c.legal THEN {}
  ELSE CASE c.kind = "filter" ->
            {[errors |-> m.errors \div 2, volume |-> (m.volume * 7) \div 10]}
       [] c.kind = "aggregate" -> {m}
       [] c.kind = "sample" /\ c.knob \in 1 .. 99 ->
            {[m EXCEPT !.volume = (@ * c.knob) \div 100]}
       [] c.kind = "rotate" -> {[m EXCEPT !.volume = @ \div 2]}
       [] OTHER -> {}

LogRank(m) == <<m.errors, m.volume>>
LogImproving(g, base) ==
  {m \in UNION {LogApply(g[i], base.metrics) : i \in DOMAIN g} :
     Beats(LogRank(m), base, LogRank(base.metrics))}

(* 0.7 of the error reduction and 0.3 of the volume reduction.             *)
LogReduction(old, new) ==
  LET e == Ratio(old.errors, new.errors)
      v == Ratio(old.volume, new.volume)
  IN <<7 * e[1] * v[2] + 3 * v[1] * e[2], 10 * e[2] * v[2]>>

LogBump(c) == Greatest(1, c.knob - 5)
LogBumpable(c) == c.kind = "sample"
LogMutate(g) ==
  MutateFirst(g, {i \in DOMAIN g : LogBumpable(g[i])}, [i \in DOMAIN g |-> LogBump(g[i])])
LogEvaluate(g, base) ==
  Fitness(g, {LogReduction(base.metrics, m) : m \in LogImproving(g, base)})

=============================================================================

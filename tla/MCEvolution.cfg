\* Genomes of two candidates; slices and cycle budgets that cut them, fit
\* them and exceed them.
CONSTANTS
  Candidates <- MCCandidates
  Baselines <- MCBaselines
  MaxCandidates = 2
  MaxIterations = 2
  PairDomains = {"sql", "security", "log"}
  Limits <- MCLimits
SPECIFICATION FairEvolutionSpec
INVARIANTS LoopAgreesWithFitness ReportIsMeasured
PROPERTY EvolutionConverges
CHECK_DEADLOCK FALSE

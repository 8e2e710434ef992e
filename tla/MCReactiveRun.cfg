\* Three calls with a budget of one run, one lost append and one restart.
CONSTANTS
  m1 = m1
  good = good
  bad = bad
  none = none
  Models = {m1}
  Texts = {good, bad}
  Passing = {good}
  NoText = none
  MaxLLMCalls = 1
  MaxCalls = 3
  MaxEffects = 1
  MaxFailures = 1
  MaxRestarts = 1
SPECIFICATION FairSpec
INVARIANTS OverspendOnlyByRaising StoreTellsRuns
PROPERTY CallsEnd
CHECK_DEADLOCK FALSE

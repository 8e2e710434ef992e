\* Four models of three providers; up to two failures and one retry.
CONSTANTS
  m1 = m1
  m2 = m2
  m3 = m3
  alien = alien
  provA = provA
  provB = provB
  provC = provC
  none = none
  Models <- MCModels
  ProviderOf <- MCProviderOf
  Capabilities <- MCCapabilities
  Cost <- MCCost
  Wired <- MCWired
  Stages <- MCStages
  Preference <- MCPreference
  NoPreference <- none
  Requirements <- MCRequirements
  NoModel <- none
  MaxFailures = 2
  MaxRetries = 1
SPECIFICATION FairRouterSpec
INVARIANTS HealthMatchesTries FailuresBounded RetriesBeforeFallback
PROPERTIES CheapestServes RouteEnds

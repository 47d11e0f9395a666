SPECIFICATION FairSpec
CONSTANTS
  web = web
  Runs = {1, 2}
  Repos = {web}
  RepoOf <- RepoOfRuns
  Keep = 1
  MaxTime = 2
  MaxChanges <- Rerun
  MaxResent = 1
  MaxHandlers = 2
INVARIANTS NewestShown
PROPERTIES OldestGoes StartKept ShowsTheTruth
CHECK_DEADLOCK FALSE

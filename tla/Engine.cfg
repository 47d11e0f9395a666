SPECIFICATION FairSpec
CONSTANTS
  v1 = v1
  v2 = v2
  nil = nil
  Versions = {0, 1, 2}
  Pipelines <- Services
  Images = {v1, v2}
  NoImage = nil
  MaxRuns = 2
  MaxPushes = 1
  MaxCrashes = 1
  MaxFaults = 1
INVARIANTS ContentSafe CleanEnd InOrder SuccessIsPinned
PROPERTIES ExecutionEnds

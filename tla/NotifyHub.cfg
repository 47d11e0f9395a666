SPECIFICATION FairSpec
CONSTANTS
  Deploys = {1, 2, 3, 4}
  Outcomes = {"failed", "succeeded", "superseded"}
  Stored <- LeftBroken
  Wanted <- EveryKind
  Lookback = 3
  Keep = 3
  Edges = {e1}
  QueueCap = 2
  MaxAttempts = 2
  MaxItems = 3
  MaxReloads = 1
INVARIANTS FlagMatchesNews RecoveredIsEarned NoLostWakeup
PROPERTIES InOrder ShutdownEnds

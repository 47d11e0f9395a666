SPECIFICATION FairSpec
CONSTANTS
  Execs = {1, 2}
  Sessions = {1, 2, 3}
  InstanceOf <- OwnInstances
  MaxFaults = 1
  QueueDepth = 1
  PendingCap = 1
INVARIANTS OneOwner HeldHasTimer ResultKept
PROPERTIES OrphansOfLastDial HoldsConverge ResultsGetThrough

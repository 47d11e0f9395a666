SPECIFICATION Spec
CONSTANTS
  Execs = {1}
  Sessions = {1, 2}
  InstanceOf <- OwnInstances
  MaxFaults = 1
  QueueDepth = 1
  PendingCap = 2
INVARIANTS AttachedIsAcquirable


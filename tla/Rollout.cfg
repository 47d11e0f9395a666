SPECIFICATION Spec
CONSTANTS
  Deploys = {1, 2}
  Instances = {1, 2}
  WaveOf <- Both
  Pinners = {1, 2}
  v1 = v1
  v2 = v2
  nil = nil
  Images = {v1, v2}
  NoImage = nil
  Triggers <- TaskFirst
  Keep = 1
  MaxCrashes = 2
  MaxStops = 1
  MaxFaults = 1
INVARIANTS OneRollout NotifyOnce FinishIsTrue LaunchedOnce NoOrphan WaveGate OneImage
PROPERTIES ExecutionsFinal NeverRequeued
CONSTRAINT TwoMishaps
SYMMETRY AnyImage

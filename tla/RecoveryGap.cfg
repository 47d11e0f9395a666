SPECIFICATION Spec
CONSTANTS
  Deploys = {1}
  Instances = {1, 2}
  WaveOf <- OneByOne
  Pinners = {1, 2}
  v1 = v1
  v2 = v2
  nil = nil
  Images = {v1}
  NoImage = nil
  Triggers <- OnlyDeploy
  Keep = 1
  MaxCrashes = 1
  MaxStops = 0
  MaxFaults = 0
INVARIANTS RecoveryClosesAll


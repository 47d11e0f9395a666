SPECIFICATION FairSpec
CONSTANTS
  Deploys = {1, 2, 3}
  Instances = {1}
  WaveOf <- OneWave
  Pinners = {}
  v1 = v1
  v2 = v2
  nil = nil
  Images = {v1}
  NoImage = nil
  Triggers <- OnlyDeploy
  Keep = 2
  MaxCrashes = 0
  MaxStops = 1
  MaxFaults = 1
CONSTRAINT OneMishap
PROPERTIES EveryDeployFinishes KeepsLane

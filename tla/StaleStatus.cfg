SPECIFICATION Spec
CONSTANTS
  Deploys = {1}
  Instances = {1, 2}
  WaveOf <- OneWave
  Pinners = {1, 2}
  v1 = v1
  v2 = v2
  nil = nil
  Images = {v1}
  NoImage = nil
  Triggers <- OnlyPinned
  Keep = 1
  MaxCrashes = 0
  MaxStops = 0
  MaxFaults = 0
INVARIANTS FinishedReadsTerminal


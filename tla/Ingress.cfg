SPECIFICATION Spec
CONSTANTS
  r1 = r1
  r2 = r2
  MaxInt = 127
  RetryInterval = 1
  DefaultTimeout = 10
  Content <- Files
  First <- AllFiles
  Edits = {1, 8}
  Payloads <- Bodies
  Names = {"a", "z"}
  Versions <- Engines
  Keys = {1, 2}
  Foreign = 0
  Requests = {1}
  Reloaders = {r1, r2}
INVARIANTS RunsAsWritten AcceptedIsSound ServesTheFile OnlyLiveKeys EditorAgrees
CHECK_DEADLOCK FALSE
SYMMETRY AnyReloader
CONSTRAINT OneConcern

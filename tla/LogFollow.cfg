SPECIFICATION FairSpecAll
CONSTANTS
  Writers = {w1, w2}
  MaxLines = 2
  MaxLosses = 1
  SubCap = 1
  OutCap = 1
  BufferCap = 2
INVARIANTS NoRepeats Accounted LogIsWhole
PROPERTIES FollowEnds

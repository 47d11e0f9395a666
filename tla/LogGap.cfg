SPECIFICATION SpecAll
CONSTANTS
  Writers = {w1, w2}
  MaxLines = 2
  MaxLosses = 1
  SubCap = 2
  OutCap = 1
  BufferCap = 2
INVARIANTS NothingBetween

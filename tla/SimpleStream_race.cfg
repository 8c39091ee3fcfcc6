SPECIFICATION Spec
CONSTANTS
  Period = 1
  BufferSize = 8
  Allowed = 4
  Capacity = 2
  Word = 16
  MaxLag = 1
  Tokens = 1
  Quiet = FALSE
INVARIANT RemainingFits

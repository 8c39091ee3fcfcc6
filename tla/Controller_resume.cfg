SPECIFICATION Spec
CONSTANTS
  Codecs = {0, 1}
  Dead = {}
  MaxCodecs = 4
  MaxLost = 1
CHECK_DEADLOCK FALSE
INVARIANT CodecsOnce

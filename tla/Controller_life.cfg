SPECIFICATION FairSpec
CONSTANTS
  Codecs = {0, 1, 2}
  Dead = {1}
  MaxCodecs = 6
  MaxLost = 1
CHECK_DEADLOCK FALSE
INVARIANTS TypeOK NoLeak DmaHeld HandlerSafe QuietWhenDestroyed ListedAnswer
PROPERTIES CallsReturn

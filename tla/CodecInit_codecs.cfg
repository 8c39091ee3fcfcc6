SPECIFICATION FairSpec
CONSTANTS
  Codecs <- MCCodecs
  Streams = {0, 1}
  MaxDepth = 3
  FirstCap = 2
CHECK_DEADLOCK FALSE
INVARIANTS TypeOK Enumerated PathsSound PathsComplete ActiveTogether FindsUsable GroupsSorted GroupsComplete NothingLost
PROPERTIES InitEnds

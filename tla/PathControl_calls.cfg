SPECIFICATION Spec
CONSTANTS
  Offers <- MCOffers
  Step <- MCStep
  Streams = {0, 1}
  Outputs = {0, 1}
  CanMute = {2}
  HasEapd = {3}
  Strays = {0, 2}
  MaxDepth = 4
CHECK_DEADLOCK FALSE
INVARIANTS TypeOK PathPlays PathSilent MuteHolds

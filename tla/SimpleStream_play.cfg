SPECIFICATION FairSpec
CONSTANTS
  Period = 1
  BufferSize = 8
  Allowed = 4
  Capacity = 2
  Word = 16
  MaxLag = 1
  Tokens = 2
  Quiet = TRUE
INVARIANTS TypeOK NoUnderrun AheadBounded RingConsistent MarginInvariant
PROPERTIES ImplementsAudioFifo QueueDrains

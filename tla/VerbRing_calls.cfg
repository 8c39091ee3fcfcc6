SPECIFICATION FairSpec
CONSTANTS
  Threads = {t1, t2}
  NoThread = NoThread
  Slots = 4
  MaxVerbs = 6
INVARIANTS TypeOK OwnResponse FetchInOrder AnswerVisible RingInvariant
PROPERTIES ImplementsVerbCall LockReleased

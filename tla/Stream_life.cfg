SPECIFICATION FairSpec
CONSTANTS
  Addr = {a1, a2}
  Null = Null
  SuspendSetUp = FALSE
INVARIANTS Ledger DmaSafe CleanStart
PROPERTIES CallbackSafe CallsReturn

SPECIFICATION Spec
CONSTANTS
  Addr = {a1}
  Null = Null
  SuspendSetUp = TRUE
INVARIANT DmaSafe

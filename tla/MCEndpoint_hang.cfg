\* stop() right after run().
CONSTANTS
  None = None
  Callers = {u1}
  N = 1
  CallbacksCall = FALSE
  MaxHandles = 1
SPECIFICATION FairSpec
PROPERTY StopReturns
CHECK_DEADLOCK FALSE

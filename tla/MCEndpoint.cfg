\* Two threads run, stop and use a server or a client, whose callbacks use it too.
CONSTANTS
  None = None
  Callers = {u1, u2}
  N = 2
  CallbacksCall = TRUE
  MaxHandles = 2
SPECIFICATION FairSpec
INVARIANTS TypeOK ConnectedIsServed StopLeavesNothing RunAllOrNothing
PROPERTY StopReturnsFromLoops
CHECK_DEADLOCK FALSE

\* The listening sockets of a server that was stopped.
CONSTANTS
  None = None
  Callers = {u1}
  N = 2
  CallbacksCall = FALSE
  MaxHandles = 1
SPECIFICATION Spec
INVARIANT ListenersServed
CHECK_DEADLOCK FALSE

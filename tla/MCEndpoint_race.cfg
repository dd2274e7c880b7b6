\* One thread calls run() while another calls stop().
CONSTANTS
  None = None
  Callers = {u1, u2}
  N = 1
  CallbacksCall = FALSE
  MaxHandles = 1
SPECIFICATION Spec
INVARIANT NotRunningIsTrue
CHECK_DEADLOCK FALSE

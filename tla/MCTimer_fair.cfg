\* Two threads run and stop the timer while two waits are submitted.
CONSTANTS
  None = None
  Waits = {a, b}
  Controllers = {u1, u2}
  MaxDelay = 2
SPECIFICATION FairSpec
INVARIANTS NeverBlockedWithWaits NeverEarly OneThread
PROPERTIES WaitsAreAnswered StopEndsLoop
CHECK_DEADLOCK FALSE

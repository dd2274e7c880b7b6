\* A wait that is due while a later one is in the heap.
CONSTANTS
  None = None
  Waits = {a, b}
  Controllers = {u1}
  MaxDelay = 2
SPECIFICATION Spec
PROPERTY DueAreTaken
CHECK_DEADLOCK FALSE

\* async_read and async_write: the size reported is not what was moved.
CONSTANTS
  r1 = r1  r2 = r2  w0 = w0  w1 = w1  w2 = w2
  None = None
  Ops = {r1, w1}
  Dir <- MCDir
  Size <- MCSize
  Until <- TwoByteUntil
  Loop = loop
  Users = {u1}
  Closers = {loop, u1}
  MaxBytes = 3
SPECIFICATION Spec
INVARIANT ExactReport

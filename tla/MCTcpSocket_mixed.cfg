\* async_read beside async_read_some and a write of 0 bytes; every thread may close.
CONSTANTS
  r1 = r1  r2 = r2  w0 = w0  w1 = w1  w2 = w2
  None = None
  Ops = {r1, r2, w0}
  Dir <- MCDir
  Size <- MCSize
  Until <- TwoByteUntil
  Loop = loop
  Users = {u1}
  Closers = {loop, u1}
  MaxBytes = 3
SPECIFICATION Spec
INVARIANTS TypeOK CalledAtMostOnce NothingStranded RegisteredOwnsFd ClosesOwnFd
INVARIANTS ErrorOnlyWhenBroken SomeReportExactly

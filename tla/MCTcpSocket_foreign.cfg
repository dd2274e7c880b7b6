\* close() on a thread other than the runtime's: recv on a number given away.
CONSTANTS
  r1 = r1  r2 = r2  w0 = w0  w1 = w1  w2 = w2
  None = None
  Ops = {r2}
  Dir <- MCDir
  Size <- MCSize
  Until <- AllTry
  Loop = loop
  Users = {u1}
  Closers = {loop, u1}
  MaxBytes = 1
SPECIFICATION Spec
INVARIANT NoForeignIO

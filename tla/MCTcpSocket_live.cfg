\* Fair behaviours: what is closed or ended is answered; the promise is kept.
CONSTANTS
  r1 = r1  r2 = r2  w0 = w0  w1 = w1  w2 = w2
  None = None
  Ops = {r1, w2}
  Dir <- MCDir
  Size <- MCSize
  Until <- TwoByteUntil
  Loop = loop
  Users = {u1}
  Closers = {loop, u1}
  MaxBytes = 2
SPECIFICATION FairSpec
PROPERTIES CloseCompletes ReadAnsweredAtEnd KeepsPromise

\* Two sockets that may get the same number; the loop and one other thread.
CONSTANTS
  None = None
  Sockets = {s1, s2}
  Fds = {f1, f2}
  Users = {u1}
  Loop = loop
SPECIFICATION FairSpec
INVARIANTS TypeOK NoDangling NoRelock NoFileLost
PROPERTIES NumbersAreFresh RetiredIsFreed StopEnds

\* Calls that leave when they are hung up on, and calls that do not.
SPECIFICATION FairSpec
INVARIANTS NothingFreedInUse CallsReachTheirOwn NothingLost DeviceAccounted
PROPERTIES HangupEnds
CONSTANTS
  p1 = p1
  p2 = p2
  p3 = p3
  d1 = d1
  d2 = d2
  d3 = d3
  Procs = {p1, p2, p3}
  Paths = {d1, d2}
  MaxMade = 2
  MaxSession = 2
  MaxBusy = 2
  Worlds <- QuietToRough
  NoPath = NoPath
  Nil = Nil

\* The last path is closed with no hangup, and the device opened while it drains.
SPECIFICATION Spec
INVARIANTS SessionBehindPath
CONSTANTS
  p1 = p1
  p2 = p2
  p3 = p3
  d1 = d1
  d2 = d2
  d3 = d3
  Procs = {p1, p2, p3}
  Paths = {d1, d2}
  MaxMade = 3
  MaxSession = 3
  MaxBusy = 3
  Worlds <- OnlyClosing
  NoPath = NoPath
  Nil = Nil
SYMMETRY Alike

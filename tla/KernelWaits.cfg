\* A semaphore, a mutex and a message queue under deadlines, no interrupt.
\* A wild context load stops the machine.
SPECIFICATION Spec
INVARIANTS NoLostWakeup
CHECK_DEADLOCK FALSE
CONSTANTS
  s = s
  m = m
  items = items
  room = room
  NoQ = NoQ
  NThreads = 3
  Waitqs = {s, m, items, room}
  Mutexes = {m}
  Partner <- QueuePartner
  Initial <- StartCounts
  Limit <- UpToOne
  IsrQs = {}
  InitPrio <- TwoPriorities
  NewPrios = {}
  Boosts = {}
  PrioMax = 2
  AgeMax = 0
  AgePeriod = 1
  PendingMax = 3
  Timeouts <- ForeverOrOne
  Sleeps = {}
  Killable = {}
  Stoppable = {}
  Careless = {}
  MayOverrun = {}
  MaxDepth = 2
  MaxLock = 1

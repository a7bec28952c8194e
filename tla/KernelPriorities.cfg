\* Priorities set, boosted, taken back and aged; threads that overrun their
\* stacks; one that is killed wherever it is, running or asleep on a semaphore.
SPECIFICATION Spec
ACTION_CONSTRAINT NoneBlocksOffStack
INVARIANTS EffectiveIsEarned
PROPERTIES BandsHold DeadStayOff
CONSTANTS
  s = s
  m = m
  items = items
  room = room
  NoQ = NoQ
  NThreads = 3
  Waitqs = {s}
  Mutexes = {}
  Partner <- NoPartner
  Initial <- StartCounts
  Limit <- UpToOne
  IsrQs = {}
  InitPrio <- LowestFirst
  NewPrios = {2}
  Boosts = {3}
  PrioMax = 3
  AgeMax = 1
  AgePeriod = 1
  PendingMax = 3
  Timeouts <- Forever
  Sleeps = {}
  Killable = {1}
  Stoppable = {2}
  Careless = {}
  MayOverrun = {3}
  MaxDepth = 1
  MaxLock = 1

\* An interrupt's give between the push and the drain.
SPECIFICATION Spec
INVARIANTS LoadsSavedContext
CHECK_DEADLOCK FALSE
CONSTANTS
  s = s
  m = m
  items = items
  room = room
  NoQ = NoQ
  NThreads = 2
  Waitqs = {s}
  Mutexes = {}
  Partner <- NoPartner
  Initial <- StartCounts
  Limit <- UpToTwo
  IsrQs = {s}
  InitPrio <- OnePriority
  NewPrios = {}
  Boosts = {}
  PrioMax = 2
  AgeMax = 0
  AgePeriod = 1
  PendingMax = 3
  Timeouts <- Forever
  Sleeps = {}
  Killable = {}
  Stoppable = {}
  Careless = {}
  MayOverrun = {}
  MaxDepth = 1
  MaxLock = 0

\* RV9_PRIO_HIGH beside RV9_PRIO_LOW, and RV-9's own aging figures; or the link of the network
\* driver.
SPECIFICATION FairBoth
PROPERTIES DeadlinesEnd NoStarvation LinkComesBack
CHECK_DEADLOCK FALSE
CONSTANTS
  s = s
  m = m
  items = items
  room = room
  NoQ = NoQ
  NThreads = 2
  Waitqs = {s}
  Mutexes = {}
  Partner <- NoPartner
  Initial <- StartCounts
  Limit <- UpToOne
  IsrQs = {}
  InitPrio <- HighAndLow
  NewPrios = {}
  Boosts = {}
  PrioMax = 15
  AgeMax = 10
  AgePeriod = 1
  PendingMax = 3
  Timeouts <- ForeverOrOne
  Sleeps = {2}
  Killable = {}
  Stoppable = {}
  Careless = {}
  MayOverrun = {}
  MaxDepth = 1
  MaxLock = 0
  home = home
  away = away
  Networks = {home, away}
  InRange = {home}
  NoNetwork = NoNetwork
  MAX_RETRIES = 1
  Stall = 2
  BackoffFirst = 1
  BackoffMax = 2
  MaxPosted = 3
  MaxAsks = 2
  Prompt = TRUE
  MayRefuse = FALSE
  Steady = TRUE

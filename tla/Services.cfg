\* Locks, claims, publications, releases, admission, files, the flash disk,
\* the log, the heap, the module directory, listeners, a session of ssh and the
\* shell, one to a behaviour.
SPECIFICATION ServicesSpec
INVARIANTS NoOrphanLock LoansLast ClaimsHold LeftAsPromised SnapshotsAreWhole OneWriter NoSleepThroughChange ReleasesKept DeadlinesAreMet SectorsHaveOneUse ReadsWhatWasWritten OnlyFreshAtRisk NeverSilent HeapInv ImagesAreHeld ListenersLast SessionAgrees HeardToTheEnd ShellLetsGo
CHECK_DEADLOCK FALSE
CONSTANTS
  l1 = l1
  l2 = l2
  Threads = {1, 2, 3}
  Tasks = {11, 12}
  Locks = {l1, l2}
  Before <- InOrder
  None = None
  p1 = p1
  p2 = p2
  d1 = d1
  d2 = d2
  Nobody = Nobody
  Pids = {p1, p2}
  Devs = {d1, d2}
  Manifests <- Plans
  Copies = {1}
  MaxFailsafes = 2
  w1 = w1
  w2 = w2
  w3 = w3
  o1 = o1
  o2 = o2
  c1 = c1
  Writers = {w1, w2, w3}
  Observers = {o1, o2}
  Cells = {c1}
  NWaiters = 1
  MaxTries = 1
  MaxPubs = 2
  Declared = {w1, w2}
  StopsAt <- BeforeOrAfter
  NoCell = NoCell
  NoProc = NoProc
  loop = loop
  button = button
  Periodic = {loop}
  Sporadic = {button}
  Period <- EveryTwo
  Deadline <- WithinOne
  Runaway = 3
  Backlog = 2
  MaxTime = 8
  MaxSignals = 2
  Uses <- OneAtATime
  RtIds = {1, 2, 3}
  RtPrograms <- Loops
  RtSlots = 3
  Analysed = 8
  Ceiling = 700
  Rounds = 8
  OneByOne = TRUE
  Quiet = TRUE
  NoProgram = NoProgram
  f1 = f1
  f2 = f2
  NoName = NoName
  Names = {f1, f2}
  Handles = {1, 2}
  Total = 8
  Byte = 1
  MapBytes = 5
  RootSectors = 1
  RootSlots = 2
  MaxSegments = 2
  MaxLength = 3
  Worlds <- Whole
  b1 = b1
  b2 = b2
  bit = bit
  Blocks = {b1, b2}
  Parts = {1, 2}
  Bits = {bit}
  Slots = {1}
  NoBlock = NoBlock
  MaxCuts = 1
  kernel = kernel
  radio = radio
  Loggers = {kernel, radio}
  DeferLines = 4
  MaxLines = 6
  NoLine = NoLine
  Base = 1
  Region = 39
  Header = 4
  Align = 2
  MinPayload = 2
  Word = 64
  Requests <- Asks
  NoBlockAt = NoBlockAt
  Store <- Partition
  Uploads <- Newcomers
  Linkers = {1, 2, 3}
  RamBlocks = {b1, b2}
  MaxEntries = 3
  NoImage = NoImage
  InStore = InStore
  q1 = q1
  q2 = q2
  q3 = q3
  Daemons = {1, 2}
  Ports = {q1, q2, q3}
  NoPort = NoPort
  NListeners = 2
  Grace = 2
  Sockets = {1, 2, 3, 4}
  NoSocket = NoSocket
  Window = 2
  MaxPayload = 1
  ObufMax = 2
  AuthTries = 2
  Spins = 2
  ReadSizes = {1}
  WriteSizes = {1, 3}
  Sittings <- Clients
  Ample = 9
  Fds = {0, 1, 2, 3, 4, 5, 6, 7, 8, 9, 10, 11}
  SaveOut = 5
  SaveIn = 6
  MaxStages = 4
  Homes <- Prompts

\* Every fault of each service.
CONSTANTS
  Blocks <- MCBlocks
  MaxBlocks = 2
  Spare = 0
  Signed <- MCSigned
  Offered <- MCOffered
  Chunks <- MCChunks
  Faults = {"power", "flash", "select"}
  TransferIds = {1}
  QueueLength = 1
  MaxGeneration = 1
  MaxSession = 2
  MaxCommands = 2
  Operations = {1, 2}
  MaxToken = 3
  MaxScope = 2
  ClearFaults = {"power", "nvs", "link", "unreadable"}
  Readings = 3
  Visible = {0}
  Failing = {1}
  Watched = 1
  Jobs = 1
  Streak = 1
  Pace = 2
  MaxResets = 1
  Dwell = 2
  ClearDwell = 1
  Stale = 2
  SampleQueue = 2
  Horizon = 3
  Keys = {0, 1}
  External = {1}
  Severities = {0, 1, 2}
  RingSize = 1
  JournalSize = 1
  PageSize = 1
  LastEvent = 3
  MaxBoot = 2
SPECIFICATION ServicesSpec
INVARIANTS
  ServicesTypeOK
  BootsSigned
  GateIsUpdates
  AdaptersFollowNetwork
  ClearIsHonest
  ClearHoldsGate
  RoutesAgree
  CommandsReachEngine
  EachRoundIsServed
  SilenceIsAsked
PROPERTIES
  ClosesItsOwn
  ImplementsSessions
  ExchangeIsProven
  SeveritiesAreEarned
  HistoryIsContinuous
  NothingStaysForGood

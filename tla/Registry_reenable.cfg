SPECIFICATION Spec
CONSTANTS
  d1 = d1  d2 = d2  d3 = d3
  Device <- MCDevice
  Overridden = {d2}
  Legacy = {d1}
  Scanned = {d1}
  Threshold = 2
  MaxFailures = 2
  MaxFaults = 1
  Operator = {"bot", "web"}
  Commands <- MCCommands
  Updates <- MCUpdates
  Oversized <- MCOversized
  MaxRequests = 1
  Name <- MCName
  Due = {d1, d2, d3}
  PageSize = 1
  MaxTasks = 3
  MaxSelections = 1
  Fetchers <- MCFetchers
  Content <- MCContent
  Seed <- MCSeed
  Renamed <- MCRenamed
  Priority <- MCPriority
  Overlay = "overlay"
  SeedSource = "seed"
  MaxFetchErrors = 1
  Oxygen <- MCOxygen
  Archive <- MCArchive
  Edl <- MCEdl
  Base <- MCBase
  Build <- MCBuild
  Findable <- MCFindable
  ImportPage = 2
  ChunkSize = 2
  MaxImports = 1
  InitialRows <- MCInitialRows
  InitialFetches <- MCInitialFetches
  ImportCommands <- MCImportCommands
  Scenarios <- WebScan
PROPERTY EnablingResetsFailures
CHECK_DEADLOCK FALSE

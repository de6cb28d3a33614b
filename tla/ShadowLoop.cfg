SPECIFICATION FairLoopSpec
CONSTANTS
  SequenceModulus = 3
  PacketBytes = 2
  ServiceBytes = 1
  TelemetryPeriod = 2
  UiPeriod = 2
  Rows = 3
  RowChunks = 2
INVARIANTS
  NothingStaleIsShown
  GapsAreDrops
PROPERTIES
  ShowsWholeFrame
  BackgroundDrains

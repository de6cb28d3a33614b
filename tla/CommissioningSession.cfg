CONSTANTS
  None = None
  Telemetry = Telemetry
  Reports <- MCReports
  Requests <- MCRequests
  MaxSessions = 1
  MaxCalls = 5
  InQueue = 2
  DefaultLease = 1
  MaxLease = 1
  ServoDefaultLease = 1
  ServoMaxLease = 1
  TelemetryPeriod = 1
  BootIterations = 1
  OutQueue = 2
SPECIFICATION SessionSpec
INVARIANTS
  StopReturnedHolds
PROPERTIES
  AnswersOwnCall
  SessionsEndStopped

CONSTANTS
  None = None
  Telemetry = Telemetry
  Reports <- MCReports
  Requests <- MCPlainRequests
  MaxSessions = 2
  MaxCalls = 3
  InQueue = 2
  DefaultLease = 1
  MaxLease = 1
  ServoDefaultLease = 1
  ServoMaxLease = 1
  TelemetryPeriod = 1
  BootIterations = 1
  OutQueue = 1
SPECIFICATION SessionSpec
PROPERTIES
  AnswersOwnCall

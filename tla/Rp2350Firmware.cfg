CONSTANTS
  None = None
  Reports <- MCReports
  DefaultLease = 1
  MaxLease = 2
  ServoDefaultLease = 1
  ServoMaxLease = 2
  TelemetryPeriod = 2
  BootIterations = 1
  OutQueue = 1
SPECIFICATION FairSpec
INVARIANTS
  DriveHasOwner
  StopHolds
PROPERTIES
  LeasedDrive
  SilenceStops

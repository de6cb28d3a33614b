\* A run ends when the heap is empty, when a handler fails, or at the horizon.
CHECK_DEADLOCK FALSE
SPECIFICATION MCSpec
CONSTANTS
  None = None
  Duration = 8
  SensorPeriod = 1
  RuntimePeriod = 1
  MissedTolerance = 2
  LateFactor = 2
  FullDuty = 1
  PositiveCommandIsPositiveDrive = TRUE
  Commands <- MCCommands
INVARIANTS
  EveryRunPasses
  OnlyFreshObservations
  MotorFollowsCycle
  AuthorityFollowsMisses
  SampleIsOneInstant
PROPERTIES
  LossReachesMotor
  LiveImplementsScheduler

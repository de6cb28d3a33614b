\* The clock and the shadow loop end at their horizons, the shaft at its last edge.
CHECK_DEADLOCK FALSE
SPECIFICATION MCSpec
CONSTANTS
  None = None
  ControlPeriod = 3
  ClockHorizon = 24
  ShaftEdges = 8
  CounterModulus = 6
  CountLimit = 7
  ArmTravel = 9
  NoAngle = NoAngle
  AdcModulus = 8
  UprightAdc = 5
  Parts = 2
  PendulumTravel = 20
  TicksPerUs = 2
  TickPeriod = 16
  LostTicks <- MCTicks
  AcquireTimes <- MCAcquire
  StepTimes <- MCStep
  BackgroundTimes <- MCBackground
  LateAfter = 12
  TimeoutAfter = 20
  WatchdogAfter = 18
  TimingHorizon = 100
  TickModulus = 11
  Debounce = 2
  RepeatDelay = 7
  Repeat = 3
  ContrastStep = 2
  MaxContrast = 5
  InitialContrast = 2
INVARIANTS
  OpportunitiesAccounted
  CountExplained
  SensorsFollow
  MissedIsExact
  HealthIsHonest
PROPERTIES
  NoBurst
  OnePressOneEvent

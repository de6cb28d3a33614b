SPECIFICATION Spec
CONSTANTS
  None = None
  MaxGap = 2
  FullCommand = 2
  Observations <- MCObservations
  Times <- MCTimes
  Commands <- MCCommands
  LimitChoices <- MCLimits
  RequestChoices <- MCRequests
INVARIANTS
  PortCommandIsEarned
PROPERTIES
  PortImplementsLease

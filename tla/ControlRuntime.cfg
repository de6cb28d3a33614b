SPECIFICATION Spec
CONSTANTS
  None = None
  MaxGap = 2
  RuntimeLimits <- MCLimits
  Observations <- MCObservations
  Times <- MCTimes
  FullTorque = 2
  Deadzone = 1
  Commands <- MCCommands
  ProfileChoices <- MCProfiles
  AdmissionChoices <- MCAdmission
  RequestChoices <- MCRequests
INVARIANTS
  AuthorityCoherent
  GateNeverFails
  CommandIsEarned
PROPERTIES
  SlewBounded
  ImplementsLease

SPECIFICATION FairSpec
CONSTANTS
  None = None
  Policies <- MCPolicies
  Samples <- MCSamples
  Tracking = "Recenter"
  DecayTau = 2
  Orientation = 1
  Revolution = 10
  StartRate = 1
  MaxRate = 1
  RecenterTau = 2
  HoldBand = 1
  Grid = 1
INVARIANTS
  RegimeFitsSample
  SpinDownCoasts
PROPERTIES
  BalanceIsEarned
  RecenterIsSmooth
  RecenterSettles

SPECIFICATION FairSpec
CONSTANTS
  None = None
  Policies <- MCOnePolicy
  Samples <- MCCoarseSamples
  Tracking = "Recenter"
  DecayTau = 1
  Orientation = 0
  Revolution = 100
  StartRate = 1
  MaxRate = 2
  RecenterTau = 5
  HoldBand = 2
  Grid = 5
PROPERTIES
  RecenterSettles

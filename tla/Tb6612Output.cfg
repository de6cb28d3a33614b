SPECIFICATION Spec
CONSTANTS
  FullDuty = 2
  PositiveCommandIsPositiveDrive = FALSE
  Commands <- MCCommands
INVARIANTS
  DrivesWhatWasAsked
  OkMeansApplied
PROPERTIES
  BreakBeforeMake

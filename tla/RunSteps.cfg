SPECIFICATION Spec
CONSTANTS
  drive = drive
  driveTeam = driveTeam
  Connectors <- MCConnectors
  Same <- MCSame
  Like <- MCLike
  MaxCalls = 3
  MaxParallel = 3
  SuperSteps = 6
  MaxFaults = 1
SYMMETRY Symmetry
INVARIANTS
  TypeOK
  EveryStepIsClosed
CHECK_DEADLOCK FALSE

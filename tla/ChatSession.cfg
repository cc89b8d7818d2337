SPECIFICATION Spec
CONSTANTS
  c1 = c1
  c2 = c2
  c3 = c3
  r1 = r1
  r2 = r2
  r3 = r3
  gmail = gmail
  drive = drive
  Commands <- MCCommands
  Runs <- MCRuns
  Providers <- MCProviders
  Worlds <- MCWorlds
  NoCommand = NoCommand
  MaxInFlight = 2
SYMMETRY MCSymmetry
INVARIANTS
  TypeOK
  ConfirmedIsConnected
  ConfirmedOnce
  NothingSpins
CHECK_DEADLOCK FALSE

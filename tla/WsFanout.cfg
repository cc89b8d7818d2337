SPECIFICATION FairSpec
CONSTANTS
  s1 = s1
  s2 = s2
  w1 = w1
  w2 = w2
  e1 = e1
  e2 = e2
  Sockets <- MCSockets
  Workspaces <- MCWorkspaces
  KeysOf <- MCKeysOf
  Events <- MCEvents
  WorkspaceOf <- MCWorkspaceOf
  NoWorkspace = NoWorkspace
  MaxCrashes = 1
  MaxLostAcks = 1
INVARIANTS
  OnlyItsWorkspaces
  RequestsAreAuthenticated
  NoMissedEvent
  LeaksOnlyByRace
PROPERTIES
  EveryEventIsConsumed
CHECK_DEADLOCK FALSE

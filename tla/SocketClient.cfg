SPECIFICATION SCFairSpec
CONSTANTS
  s1 = s1
  s2 = s2
  s3 = s3
  Places <- MCPlaces
  Clients = {"sdk", "console", "chat"}
  NoSocket = NoSocket
  MaxTimers = 2
  MaxConnects = 3
  MaxDrops = 2
INVARIANTS
  OneOfEach
  QuietAfterDisconnect
PROPERTIES
  StaysConnected
  ConnectSettles
CHECK_DEADLOCK FALSE

SPECIFICATION Spec
CONSTANTS
  u1 = u1
  u2 = u2
  Users = {u1, u2}
  Workspaces = {1, 2, 3}
  NoOne = NoOne
  Broken = Broken
  MaxAsks = 3
  Actions <- MCActions
  HomeOf <- MCHomeOf
  NameOf <- MCNameOf
  Worlds <- MCWorlds
CHECK_DEADLOCK FALSE
INVARIANTS
  TypeOK
  SessionIsOfUser
  RowsAreStored
PROPERTIES
  ChangesHitTheRow
  ChangesAreOfTheUser

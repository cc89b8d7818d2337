SPECIFICATION FairSpec
CONSTANTS
  q1 = q1
  q2 = q2
  a1 = a1
  a2 = a2
  None = None
  First = q1
  Requests <- MCRequests
  Agents <- MCAgents
  MaxCommands = 1
  MaxRounds = 1
  MaxConfirms = 2
  MaxFaults = 1
INVARIANTS
  AccountIsWhole
  ClusterFollowsRows
PROPERTIES
  CronAgentIsScheduled
CHECK_DEADLOCK FALSE

SPECIFICATION FairSpec
CONSTANTS
  a1 = a1
  a2 = a2
  r1 = r1
  r2 = r2
  Agents <- MCAgents
  InitialAgents <- MCInitialAgents
  Runs <- MCRuns
  AgentOf <- MCAgentOf
  Runtimes = {w1}
  NoRun = NoRun
  MaxFaults = 2
  MaxDuplicates = 1
INVARIANTS
  TypeOK
  AcceptedRunIsAnswered
  UnsettledRowIsOwned
  FeedMatchesRow
  TriggeredAgentExists
  DeletionIsFinal
PROPERTIES
  KeepsPromise
  AcceptedRunSettles
CHECK_DEADLOCK FALSE

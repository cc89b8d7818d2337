SPECIFICATION Spec
CONSTANTS
  a1 = a1
  a2 = a2
  r1 = r1
  r2 = r2
  Agents <- MCAgents
  InitialAgents <- MCInitialAgents
  Runs <- MCRuns
  AgentOf <- MCAgentOf
  Runtimes = {w1}
  NoRun = NoRun
  MaxFaults = 0
  MaxDuplicates = 1
PROPERTIES
  SettledRunIsNotRestarted
CHECK_DEADLOCK FALSE

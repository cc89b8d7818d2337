SPECIFICATION FairSpec
CONSTANTS
  gmail = gmail
  gmail2 = gmail2
  slack = slack
  r1 = r1
  r2 = r2
  user = user
  first = first
  second = second
  old = old
  new = new
  bareId = bareId
  Keys <- MCKeys
  Prefix <- MCPrefix
  Users = {user}
  Accounts <- MCAccounts
  Configured = {first}
  Conns <- MCConns
  KeyOf <- MCKeyOf
  UserOf <- MCUserOf
  AccountOf <- MCAccountOf
  Untagged = {bareId}
  Old = {old}
  Runs <- MCRuns
  Need <- MCNeed
  Offers <- MCOffers
  Requests <- MCRequests
  MaxRequests = 3
  MaxChanges = 1
  MaxFaults = 1
INVARIANTS
  CompletedStaysReady
  ListIsWhole
PROPERTIES
  SyncIsFaithful
  WokenRunSettles
CHECK_DEADLOCK FALSE

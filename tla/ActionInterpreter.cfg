SPECIFICATION CallSpec
CONSTANTS
  f = f
  g = g
  NoField = NoField
  Fields <- MCFields
  Definitions <- MCDefinitions
  Aliases <- MCAliases
  Searches <- MCSearches
  Names <- MCNames
  Responses <- MCResponses
  DefaultLimit = 2
INVARIANTS
  RequestIsFaithful
  AnswerIsFaithful
CHECK_DEADLOCK FALSE

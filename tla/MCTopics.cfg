SPECIFICATION TopicsSpec
CONSTANTS
  Char = {a, colon}
  Colon = colon
  MaxLength = 8
  Param <- MCParam
  PathOf <- MCPathOf
  Petition <- MCPetition
INVARIANTS SplitBack NoDeadTopics SearchFindsSelected ValueFindsItsName
CHECK_DEADLOCK FALSE

SPECIFICATION FairSpec
CONSTANTS
  Tokens <- MCTokens
  MaxTokens = 7
  MaxDepth = 7
INVARIANTS
  TypeOK
  TextsFreedOnce
  NodesOwnedOnce
  AcceptsExpressions
  CompleteTreesDeleted
PROPERTIES
  ParseReturns
CHECK_DEADLOCK FALSE

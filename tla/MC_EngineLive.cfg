\* Executions of compiled programs return.
CONSTANTS
  MaxRegisterCount = 9
  ByteBits = 2
  AuxHalf = 40
  Malformed = Malformed
  NoContext = NoContext
  MaxCalls = 2
  OptionSets <- MCNoOptions
  Expr <- MCLiveExpr
  Roots <- MCLiveExpr
  Registries <- MCRegistries
  Contexts <- MCContexts
SPECIFICATION FairSpec
PROPERTY ExecutionsReturn
CHECK_DEADLOCK FALSE

\* A constant expression is compiled with every option enabled.
CONSTANTS
  MaxRegisterCount = 9
  ByteBits = 2
  AuxHalf = 40
  Malformed = Malformed
  NoContext = NoContext
  MaxCalls = 2
  OptionSets <- MCAllOptions
  Expr <- MCFoldExpr
  Roots <- MCFoldExpr
  Registries <- MCRegistries
  Contexts <- MCContexts
SPECIFICATION Spec
INVARIANT ConstantsFolded
CHECK_DEADLOCK FALSE

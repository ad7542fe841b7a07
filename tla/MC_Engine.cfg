\* Compile, verify and execute, against the meaning of the expression.
CONSTANTS
  MaxRegisterCount = 9
  ByteBits = 2
  AuxHalf = 40
  Malformed = Malformed
  NoContext = NoContext
  MaxCalls = 2
  OptionSets <- MCNoOptions
  Expr <- MCExpr
  Roots <- MCExpr
  Registries <- MCRegistries
  Contexts <- MCContexts
SPECIFICATION Spec
INVARIANT CompiledNeverFails
PROPERTY ImplementsFilter
PROPERTY ControlGoesForward
CHECK_DEADLOCK FALSE

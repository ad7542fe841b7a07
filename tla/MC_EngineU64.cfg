\* Two fields of type u64 are compared.
CONSTANTS
  MaxRegisterCount = 9
  ByteBits = 2
  AuxHalf = 40
  Malformed = Malformed
  NoContext = NoContext
  MaxCalls = 2
  OptionSets <- MCNoOptions
  Expr <- MCU64Expr
  Roots <- MCU64Expr
  Registries <- MCRegistries
  Contexts <- MCContexts
SPECIFICATION Spec
INVARIANT FieldsCompareAsDeclared
CHECK_DEADLOCK FALSE

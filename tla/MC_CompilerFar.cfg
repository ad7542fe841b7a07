\* A field beyond the signed range of offsets is compiled.
CONSTANTS
  MaxRegisterCount = 9
  ByteBits = 1
  AuxHalf = 30
  Malformed = Malformed
  Expr <- MCFarExpr
  Roots <- MCFarExpr
  Registries <- MCRegistries
SPECIFICATION Spec
INVARIANT OffsetsCompile
CHECK_DEADLOCK FALSE

\* Few registers and a short jump range: every limit of the generator is met.
CONSTANTS
  MaxRegisterCount = 9
  ByteBits = 1
  AuxHalf = 30
  Malformed = Malformed
  Expr <- MCExpr
  Roots <- MCExpr
  Registries <- MCRegistries
SPECIFICATION Spec
INVARIANTS
  TypeOK
  RegistersOwned
  NoInternalError
  WaitingJumpsOpen
  CompiledSound
  StatusMatchesTyping
  FirstFaultReported
  RegisterNeedExact

\* Declarations and compilations in every order.
CONSTANTS
  MaxRegisterCount = 256
  ByteBits = 1
  AuxHalf = 200
  Malformed = Malformed
  NoName = NoName
  Names = {a, b}
  Types <- MCTypes
  Offsets <- MCOffsets
  Sizes <- MCSizes
SPECIFICATION Spec
INVARIANTS
  TypeOK
  FieldsWellDeclared
  FieldsReadAsRegistered
PROPERTY FailureLeavesRegistry

\* Verdict and run of every small program, with and without verification.
CONSTANTS
  MaxRegisterCount = 9
  ByteBits = 1
  AuxHalf = 8
  Programs <- MCPrograms
  Contexts <- MCContexts
  NoContext = NoContext
SPECIFICATION Spec
INVARIANTS
  TypeOK
  VerdictCorrect
  PcOnBoundary
  WellFormedNeverFaults
CHECK_DEADLOCK FALSE

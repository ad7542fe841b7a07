\* Termination of the verifier, and of the programs that only jump forward.
CONSTANTS
  MaxRegisterCount = 9
  ByteBits = 1
  AuxHalf = 8
  Programs <- MCLivePrograms
  Contexts <- MCContexts
  NoContext = NoContext
SPECIFICATION FairSpec
PROPERTIES
  VerifierTerminates
  ForwardProgramsReturn
CHECK_DEADLOCK FALSE

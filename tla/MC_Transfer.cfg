\* Blobs and programs through memory of every size, with up to three faults.
CONSTANTS
  Programs <- MCPrograms
  Accepts <- MCAccepts
  IntMax = 7
  SizeMax = 11
  ObjectSize = 6
  Magic = 5
  Version = 1
  Damages = {0, 1, 2, 9}
  Capacities <- MCCapacities
  MaxFaults = 3
SPECIFICATION FairSpec
INVARIANTS
  TypeOK
  AcceptedBlobsAreExact
PROPERTIES
  WritesStayInMemory
  TransferCompletes
CHECK_DEADLOCK FALSE

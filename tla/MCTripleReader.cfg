SPECIFICATION ReaderSpec
CONSTANTS
  R = 2
  MaxLen = 3
  MaxVec = 3
  Missing = Missing
INVARIANTS
  ReaderTypeOK
  ReadTriplesGenuine
  VectorsParallel
  EvenTablesAgree
  TriplesGenuine

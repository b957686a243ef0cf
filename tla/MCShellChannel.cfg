SPECIFICATION FairSpec
CONSTANTS
  Startup = 2
  WriteSize = 1
  MaxWrites = 2
  Sizes <- MCSizes
  DefaultSize = 1
  MaxResizes = 1
  Room = 1
  MaxPackets = 2
  MaxWaits = 2
INVARIANTS
  TypeOK
  StreamsAreWhole
  SizeSettles
PROPERTIES
  EndIsReported
  StopReturns
CHECK_DEADLOCK FALSE

SPECIFICATION CSpec
CONSTANTS
  NChunks = 4
  MaxData = 2
  LastLen = 1
  SeqMod = 16
  ClientWin = 3
INVARIANTS
  CTypeOK
  WindowShape
  DeliveredInOrder
  BytesCounted
  MutexOwned
  ReadFits
  SuccessMeansWholeFile
PROPERTIES
  EdgeNeverShrinks
  ImplementsReception

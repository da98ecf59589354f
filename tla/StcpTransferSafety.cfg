SPECIFICATION Spec
CONSTANTS
  NChunks = 4
  MaxData = 2
  LastLen = 1
  SeqMod = 16
  ClientWin = 3
  ServerWin = 6
  ClientAdv = 3
  MaxRexmt = 1
  Garbage = {0}
  AlarmDuringStall = FALSE
  ChanCap = 3
  NetReorders = FALSE
INVARIANTS
  TypeOK
  AckedIsBuffered
  ServerSuccessMeansFinBuffered
  NoSplitOutcome
PROPERTIES
  FlowControl
  ImplementsFileDelivery

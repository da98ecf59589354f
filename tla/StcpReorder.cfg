SPECIFICATION Spec
CONSTANTS
  NChunks = 1
  MaxData = 2
  LastLen = 1
  SeqMod = 16
  ClientWin = 2
  ServerWin = 4
  ClientAdv = 2
  MaxRexmt = 1
  Garbage = {0}
  AlarmDuringStall = FALSE
  ChanCap = 3
  NetReorders = TRUE
INVARIANT ServerSuccessMeansFinBuffered

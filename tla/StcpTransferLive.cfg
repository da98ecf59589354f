SPECIFICATION Spec
CONSTANTS
  NChunks = 3
  MaxData = 2
  LastLen = 1
  SeqMod = 16
  ClientWin = 2
  ServerWin = 4
  ClientAdv = 2
  MaxRexmt = 1
  Garbage = {0}
  AlarmDuringStall = FALSE
  ChanCap = 2
  NetReorders = FALSE
PROPERTIES
  Terminates
  SuccessIsShared

SPECIFICATION SSpec
CONSTANTS
  NChunks = 5
  MaxData = 2
  LastLen = 1
  SeqMod = 16
  ServerWin = 4
  ClientAdv = 2
  MaxRexmt = 2
  Garbage = {0}
  AlarmDuringStall = FALSE
INVARIANT RttFromOwnTimestamp

SPECIFICATION RSpec
CONSTANTS
  RTT_RXTMIN = 1
  RTT_RXTMAX = 3
  RTT_MAXNREXMT = 2
  InitVar = 2
  LongestRtt = 3
  MaxAge = 39
INVARIANTS
  RTypeOK
  NoOverflow
  GivesUpInTime
PROPERTIES
  EstimatorsRecover
  RtoCoversSample

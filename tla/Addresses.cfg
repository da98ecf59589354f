SPECIFICATION ASpec
CONSTANTS
  Width = 2
  MaxInterfaces = 3
INVARIANTS
  ATypeOK
  ChoosesAsPromised
  DontRouteIsDirect
  CrashNeedsZeroMask

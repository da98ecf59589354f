SPECIFICATION Spec
CONSTANTS
  Addresses = {"there"}
  Ports = {1}
  InterfaceIp = "here"
  MaxForks = 2
  MaxAttempts = 2
  ClientWin = 3
  MaxRetries = 1
INVARIANTS
  OneChildPerClient

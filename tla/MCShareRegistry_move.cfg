CONSTANTS
  n1 = n1  n2 = n2  p1 = p1  p2 = p2  t1 = t1  t2 = t2
  Shares <- MCShares
  Ports <- MCPorts
  Callers <- MCCallers
  MaxApps = 2
  NoPort = NoPort
  Torn = Torn
  Mover = Mover
  Boot = Boot
  Cli = Cli
  NoOne = NoOne
  MaxEvents = 3
  WritesFail = FALSE
SPECIFICATION FairRegistrySpec
PROPERTY MoveLeavesTheRest
CHECK_DEADLOCK FALSE

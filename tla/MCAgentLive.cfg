CONSTANTS
  n1 = n1  p1 = p1  p2 = p2  t1 = t1  t2 = t2  s1 = s1  s2 = s2  w1 = w1  w2 = w2  a1 = a1  a2 = a2
  Shares <- MCShares
  Ports <- MCPorts
  Callers <- MCCallers
  MaxApps = 1
  NoPort = NoPort
  Torn = Torn
  Mover = Mover
  Boot = Boot
  Cli = Cli
  NoOne = NoOne
  MaxEvents = 2
  WritesFail = FALSE
  Servers <- MCServers
  NoServer = NoServer
  BackoffMax = 4
  MaxAccountMoves = 4
  Lengths = {1, 3, 4}
  MaxQueue = 9
  MaxBatch = 4
  MaxBody = 6
  MaxReports = 4
  MaxKills = 1
  Networks <- MCNetworks
  AppLists <- MCAppLists
  NoRecord = NoRecord
SPECIFICATION AgentSpec
INVARIANTS AgentTypeOK NoReportLost
PROPERTIES ChangesFinish TunnelComesBack RemovalIsHeeded QueueDrains LanFollows
CHECK_DEADLOCK FALSE

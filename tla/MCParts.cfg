CONSTANTS
  r1 = r1  b1 = b1  b2 = b2  q1 = q1  q2 = q2  d1 = d1  d2 = d2  d3 = d3  k1 = k1  k2 = k2
  i1 = i1  i2 = i2  a1 = a1  a2 = a2  l1 = l1  l2 = l2
  Ids <- MCIds
  Passwords <- MCPasswords
  Links <- MCLinks
  Sessions <- MCSessions
  Reqs <- MCReqs
  None = None
  Ops <- MCOps
  People <- MCPeople
  Remote <- MCRemote
  Nobody = Nobody
  Apps <- MCApps
  Pushes <- MCPushes
  Copies <- MCCopies
  ClockSkew = 3
  NonceTTL = 6
  Ahead = 1
  Lag = 1
  MaxClock = 14
  Clients <- MCClients
  Hits <- MCHits
  Limit = 2
  Window = 3
  Wait = 1
  MaxNow = 5
  Instances <- MCInstances
  Versions = 3
  LockBreaks = TRUE
  NoInstance = NoInstance
  n1 = n1  n2 = n2  p1 = p1  p2 = p2  t1 = t1  t2 = t2
  c1 = c1  c2 = c2  c3 = c3  z1 = z1  z2 = z2
  Shares <- MCShares
  Ports <- MCPorts
  Callers <- MCCallers
  MaxApps = 1
  NoPort = NoPort
  Torn = Torn
  Mover = Mover
  Boot = Boot
  Cli = Cli
  NoOne = NoOne
  MaxEvents = 3
  WritesFail = TRUE
  Commands <- MCCommands
  Runs <- MCRuns
  NoKey = NoKey
  Cut = Cut
  MaxTries = 4
  MaxPlans = 4
  Zips <- MCZips
  Upload = Upload
  NoFile = NoFile
  MaxFiles = 3
SPECIFICATION PartsSpec
INVARIANTS PartsTypeOK SentWasAllowed FirstAdminAsked PushReplaces AcceptedOnce LimiterSound SchemaSound
INVARIANTS OneCopy RegistryAgrees QuitStaysQuit TypeOK DeletedLeavesNothing VerifiedByOwnLink
PROPERTIES KeyKept ZipPlaced PasswordByOwnLink SuspensionSticks
CONSTRAINT DrawnInOrder
CHECK_DEADLOCK FALSE
SYMMETRY Symmetry

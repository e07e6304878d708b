CONSTANTS
  Servers = {s1, s2}
  NoServer = NoServer
  BackoffMax = 4
  MaxAccountMoves = 3
SPECIFICATION TunnelSpec
PROPERTIES TunnelToAccount
CHECK_DEADLOCK FALSE

CONSTANTS
  None = None
  d1 = d1  d2 = d2
  c1 = c1  c2 = c2  c3 = c3
  Devices <- OneDevice
  Conns <- TwoConns
  Ops = {"remove"}
SPECIFICATION FairSpec
PROPERTIES UnboundGoesOffline
CHECK_DEADLOCK FALSE

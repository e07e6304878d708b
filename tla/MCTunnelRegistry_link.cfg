CONSTANTS
  None = None
  d1 = d1  d2 = d2
  c1 = c1  c2 = c2  c3 = c3
  Devices <- OneDevice
  Conns <- ThreeConns
  Ops = {"enrol", "unenrol", "remove", "disable"}
SPECIFICATION FairSpec
INVARIANTS TypeOK Reconciled
PROPERTIES ImplementsLink HandlersReturn
CHECK_DEADLOCK FALSE

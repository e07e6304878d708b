CONSTANTS
  People = {u1, u2}
  Remote = {r1}
  Nobody = Nobody
SPECIFICATION RoutingSpec
INVARIANTS FirstAdminPays
CHECK_DEADLOCK FALSE

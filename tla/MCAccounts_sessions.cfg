CONSTANTS
  None = None
  a1 = a1  p1 = p1  p2 = p2  l1 = l1  l2 = l2
  s1 = s1  t1 = t1  t2 = t2
  Ids <- OneId
  Passwords <- MCPasswords
  Links <- TwoLinks
  Sessions <- OneSession
  Reqs <- MCReqs
  Ops <- AllOps
SPECIFICATION Spec
SYMMETRY Symmetry
INVARIANTS NewPasswordEndsSessions
CHECK_DEADLOCK FALSE

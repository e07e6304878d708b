CONSTANTS
  None = None
  u1 = u1  u2 = u2  u3 = u3
  i1 = i1  i2 = i2
  t1 = t1  t2 = t2
  Users <- MCUsers
  Invites <- MCInvites
  Reqs <- MCReqs
  Ops <- KeepingOps
  InviteRoles = {"admin", "guest"}
  MaxTokens = 1
SPECIFICATION Spec
SYMMETRY Symmetry
INVARIANTS DeviceKeepsAdmin

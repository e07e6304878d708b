CONSTANTS
  None = None
  u1 = u1  u2 = u2  u3 = u3
  i1 = i1  i2 = i2
  t1 = t1  t2 = t2
  Users <- TwoUsers
  Invites <- OneInvite
  Reqs <- MCReqs
  Ops <- MCAllOps
  InviteRoles = {"admin", "guest"}
  MaxTokens = 1
SPECIFICATION FairSpec
INVARIANTS TypeOK LockDiscipline RevokesLeaveAdmin
PROPERTIES RevokerStands NoFreeAccess RequestsFinish
CHECK_DEADLOCK FALSE

CONSTANTS
  None = None
  a1 = a1  a2 = a2  c1 = c1  c2 = c2  k1 = k1  k2 = k2
  j1 = j1  j2 = j2  r1 = r1  r2 = r2
  Accts <- MCAccts
  Codes <- MCCodes
  Tokens <- MCTokens
  Logins <- MCLogins
  Reqs <- MCReqs
  DiskFails = TRUE
SPECIFICATION FairSpec
INVARIANTS TypeOK OneTokenPerCode WaitingIsWorkedOn WrittenAfterAccepted
PROPERTIES ImplementsGrant LoginEnds
CONSTRAINT MintedInOrder

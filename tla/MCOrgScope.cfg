SPECIFICATION FairSpec
CONSTANTS
  r1 = r1
  r2 = r2
  r3 = r3
  orgA = orgA
  orgB = orgB
  c1 = c1
  c2 = c2
  Requests <- MCRequests
  Orgs <- MCOrgs
  OrgOf <- MCOrgOf
  Audited <- MCAudited
  Searching <- MCSearching
  Uncaught <- MCUncaught
  Clients <- MCClients
  EnforceRLS = TRUE
  MaxFaults = 1
INVARIANTS
  TypeOK
  IdleHoldsNothing
  DurableUnlessStruck
PROPERTIES
  OwnCommitOnly
  ConnectionsReturn
CHECK_DEADLOCK FALSE

CONSTANTS
  f = f  v = v  home = home  own = own  s1 = s1  s2 = s2
  Users <- MCUsers
  Orgs <- MCOrgs
  Founder = f
  HomeOrg = home
  Slots <- MCSlots
  MaxIssued = 4
  MaxIncidents = 3
  MaxEvents = 6
SPECIFICATION Spec
INVARIANTS TypeOK SurvivorsOverlapped TokensFollowMembership KeptTokenUnspent
PROPERTIES JoinedIsSettled
SYMMETRY MCSymmetry
CHECK_DEADLOCK FALSE

SPECIFICATION Spec
CONSTANTS
  s1 = s1
  s2 = s2
  q1 = q1
  c1 = c1
  c2 = c2
  Requests <- MCRequests
  Streams <- MCStreams
  Clients <- MCClients
  Limit = 2
  EnforceRLS = TRUE
INVARIANTS
  TypeOK
  OvershootBounded
  DeliveredIsCounted
  WarningOnce
SYMMETRY Symmetry
CHECK_DEADLOCK FALSE

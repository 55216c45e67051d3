SPECIFICATION Spec
CONSTANTS
  s1 = s1
  s2 = s2
  q1 = q1
  c1 = c1
  c2 = c2
  Requests <- MCRequests
  Streams <- MCStreams
  Clients <- MCClients
  Limit = 2
  EnforceRLS = FALSE
INVARIANT StreamedIsCounted
SYMMETRY Symmetry
CHECK_DEADLOCK FALSE

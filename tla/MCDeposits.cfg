SPECIFICATION FairSpec
CONSTANTS
  NULL = NULL
  server = server  cli = cli  k1 = k1  bad = bad  taddr = taddr
  Key <- MCKey
  Malformed <- MCMalformed
  Valid <- MCValid
  Transparent <- MCTransparent
  ByHand <- MCByHand
  Connection <- MCConnection
  Server = server
  Elsewhere <- MCElsewhere
  MaxChunk = 2
  MaxStops = 1
  MaxHeight = 2
  MaxFaults = 1
INVARIANTS
  DepositTypeOK
  FreshUnlessOverlapped
  IssuedStayRegistered
  CreditedUnlessRaced
PROPERTIES
  CatchesUp

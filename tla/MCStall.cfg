SPECIFICATION FairSpec
CONSTANTS
  NULL = NULL
  server = server  cli = cli  k1 = k1  bad = bad  taddr = taddr
  Key <- OneKey
  Malformed <- NoneMalformed
  Valid <- OneValid
  Transparent <- MCTransparent
  ByHand <- MCByHand
  Connection <- MCConnection
  Server = server
  Elsewhere <- MCElsewhere
  MaxChunk = 2
  MaxStops = 1
  MaxHeight = 2
  MaxFaults = 1
PROPERTIES
  EventuallyScanned

SPECIFICATION FairSpec
CONSTANTS
  c1 = c1
  c2 = c2
  n = n
  Clients <- TheClients
  Fresh <- TheFresh
  Nested = n
  Header = 1
  Size = 2
  MaxCalls = 2
  MaxSockets = 2
  MaxStarts = 2
INVARIANTS
  TypeOK
PROPERTIES
  ImplementsRpcCall CallsReturn RequestsAreRead
CHECK_DEADLOCK FALSE

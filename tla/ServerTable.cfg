\* Every request that changes the table, both names in one bucket, one request at a time.
SPECIFICATION Spec
CONSTANTS
  c1 = c1
  c2 = c2
  u1 = u1
  u2 = u2
  n1 = n1
  n2 = n2
  f1 = f1
  f2 = f2
  NoUser = NoUser
  NoName = NoName
  NoSocket = NoSocket
  Nothing = Nothing
  Conn <- TwoConns
  User <- TwoUsers
  Name <- TwoNames
  Socket <- TwoSockets
  BucketOf <- Colliding
  MaxConnections = 3
  MaxSessions = 2
  MaxMembers = 2
  Acts <- TableActs
  Serial = TRUE
SYMMETRY Symmetry
INVARIANTS
  LoginsHeld
  UniqueLogin
  ChainsInOrder
  FaultsFromLeave
\* A fault ends the process, and the acceptor may wait for ever.
CHECK_DEADLOCK FALSE

\* The slots, the mutex and the condition of server.c.
SPECIFICATION Spec
CONSTANTS
  b1 = b1
  b2 = b2
  b3 = b3
  u1 = u1
  None = None
  Block <- Blocks
  User <- Users
  Fd <- Fds
  MaxConnections = 2
  MaxFailures = 2
INVARIANTS
  TypeOK
  ConnectedKept
  ConnectionsBounded
  NoLostWakeup
  SlotsAccounted
PROPERTIES
  RoomServed
\* A fault ends the process.
CHECK_DEADLOCK FALSE

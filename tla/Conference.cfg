\* Messages to a session of two or three, one of whom may stop reading.
SPECIFICATION Spec
CONSTANTS
  c1 = c1
  c2 = c2
  c3 = c3
  None = None
  Client <- Clients
  AtFirst <- Members
  Script <- Talk
  Room = 1
  MaxStalled = 1
INVARIANTS
  MessagesWhole
  AckMeansDelivered
  InOrderOnce
PROPERTIES
  Answered
\* Requests are bounded, and a fault ends the process.
CHECK_DEADLOCK FALSE

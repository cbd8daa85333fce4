\* Lines from the prompt of one client to the screen of another.
SPECIFICATION Spec
CONSTANTS
  MaxName = 4
  MaxData = 36
  HeaderRoom = 7
  TokenRoom = 2
  Lines <- AllLines
  PasswordFile <- File
  Names <- AllNames
  SessionNames <- AllSessions
  Following <- Rests
INVARIANTS
  TokensWhole
  RequestArrives
  LoginAgrees
  ShownAsTyped
\* A line has one way to go.
CHECK_DEADLOCK FALSE

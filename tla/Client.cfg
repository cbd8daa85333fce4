\* The main thread, its listeners and a server that may stop.
SPECIFICATION Spec
CONSTANTS
  n1 = n1
  n2 = n2
  l1 = l1
  l2 = l2
  NoName = NoName
  Name <- Names
  Tab <- Tabs
  Listener <- Listeners
  Second = 6
  MaxRtt = 2
  MaxRequests = 3
  MaxForwards = 1
INVARIANTS
  TypeOK
  OneReader
  StateOfTab
  TabsGranted
  ExitArrives
PROPERTIES
  OwnReply
  CommandsReturn
  ListenersEnd
\* A client may hang, and its history is bounded.
CHECK_DEADLOCK FALSE

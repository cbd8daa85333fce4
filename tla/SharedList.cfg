SPECIFICATION Spec
CONSTANTS
  t1 = t1
  t2 = t2
  b1 = b1
  s1 = s1
  s2 = s2
  n1 = n1
  n2 = n2
  n3 = n3
  NULL = NULL
  Dangling = Dangling
  Thread <- Threads
  Block <- Blocks
  String <- Strings
  Node <- Nodes
SYMMETRY Symmetry
INVARIANTS
  ListWhole
  FindsStayers
  SettledStay
PROPERTIES
  ImplementsList
CHECK_DEADLOCK FALSE

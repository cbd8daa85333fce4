\* Insertions, repeated keys included, and removals in two buckets.
SPECIFICATION Spec
CONSTANTS
  k1 = k1
  k2 = k2
  k3 = k3
  e1 = e1
  e2 = e2
  e3 = e3
  e4 = e4
  NULL = NULL
  Key <- Keys
  Entry <- Entries
  BucketOf <- Shared
  MaxInserts = 6
SYMMETRY Symmetry
INVARIANTS
  ListWhole
PROPERTIES
  FoundUntilRemoved
  ImplementsTable
\* The inserts are bounded.
CHECK_DEADLOCK FALSE

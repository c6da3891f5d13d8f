SPECIFICATION OpenFairSpec
CONSTANTS
  N = 1
  None = None
  a = a
  b = b
  Content = {a, b}
  MaxWrites = 2
INVARIANTS
  ForeignRetained
  PriorRetainedBesideWriter
PROPERTY
  ClosedUnlessWritten

SPECIFICATION Spec
CONSTANTS
  N = 2
  None = None
  a = a
  b = b
  Content <- MCContent
SYMMETRY ContentSymmetry
INVARIANTS
  PriorRetained
  ProjectionOfPointer
  NeverBlocked
PROPERTY
  IsAtomic

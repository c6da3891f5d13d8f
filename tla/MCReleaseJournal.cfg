SPECIFICATION Spec
CONSTANTS
  MaxSeq = 3
  N = 2
INVARIANTS
  PassHolds
  SettledFirst
  ReadsBack
PROPERTY
  AcceptanceStays
CHECK_DEADLOCK FALSE

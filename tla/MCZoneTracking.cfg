\* A bounded number of frames, and the loop ends.
SPECIFICATION Spec
CONSTANTS
  o1 = o1
  o2 = o2
  a = a
  b = b
  Objects = {o1, o2}
  Zones = {a, b}
  None = None
  Timeout = 1
  Window = 2
  Steps = {1, 2}
  MaxFrames = 4
SYMMETRY ObjectSymmetry
CHECK_DEADLOCK FALSE
INVARIANTS
  DwellIsVisits
  TransitionsAreExits
  OccupancyFresh

\* One command, executed twice within a second.
SPECIFICATION Spec
CONSTANTS
  MaxJobs = 2
  MaxHistory = 1
CHECK_DEADLOCK FALSE
INVARIANT
  EveryCancelStops

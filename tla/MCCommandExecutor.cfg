\* Two executions, which may share their id.  Their number is bounded: the system
\* stops after the last one.
SPECIFICATION FairSpec
CONSTANTS
  MaxJobs = 2
  MaxHistory = 1
CHECK_DEADLOCK FALSE
INVARIANTS
  HistoryTrue
  CancelledIsStopped
PROPERTIES
  JobsEnd
  ChildrenEnd

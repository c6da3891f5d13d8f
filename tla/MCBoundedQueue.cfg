\* Two producers, a thread that calls get() in every mode, one that iterates.
SPECIFICATION FairSpec
CONSTANTS
  p1 = p1
  p2 = p2
  g1 = g1
  i1 = i1
  m1 = m1
  Producers = {p1, p2}
  Getters = {g1}
  Iterators = {i1}
  Managers = {m1}
  Policies = {"KEEP_ALL", "DROP_OLDEST", "KEEP_LATEST"}
  Sizes = {1, 2}
  PutModes = {"now", "wait", "timed"}
  GetModes = {"now", "wait", "timed"}
  MaxCalls = 4
INVARIANTS
  Accounted
  InOrder
  DrainedBeforeEnd
PROPERTIES
  Leaves
  CloseReleases

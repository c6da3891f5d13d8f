SPECIFICATION Spec
CONSTANTS
  p1 = p1
  Pulls = {p1}
  Deep = {"nightly"}
  None = None
  Start = Start
  Alien = Alien
  MaxRuns = 4
  MaxAsks = 2
  MaxFaults = 0
INVARIANTS RepairBinds

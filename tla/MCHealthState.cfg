SPECIFICATION FairSpec
CONSTANTS
  p1 = p1
  Pulls = {p1}
  Deep = {"nightly"}
  None = None
  Start = Start
  Alien = Alien
  MaxRuns = 4
  MaxAsks = 1
  MaxFaults = 1
INVARIANTS RecordedOnce GreenIsEarned
PROPERTIES RedUntilRepaired MergedOnEvidence Proceeds

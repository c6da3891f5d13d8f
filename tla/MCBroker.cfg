SPECIFICATION FairSpec
CONSTANTS
  r1 = r1
  p1 = p1
  p2 = p2
  q1 = q1
  q2 = q2
  q3 = q3
  Runs = {r1}
  Pulls = {p1}
  Requests = {q1}
  PullOf <- P1
  OwnerRequests = {}
  None = None
  Start = Start
  Alien = Alien
  MaxFaults = 1
  MaxDrift = 1
  MaxLost = 1
INVARIANTS TerminalProofs FenceCoversProvider
PROPERTIES MainHeld UploadOnReleaseCommit LeaseSettles OrphansResolved

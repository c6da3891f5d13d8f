SPECIFICATION Spec
CONSTANTS
  r1 = r1
  p1 = p1
  p2 = p2
  q1 = q1
  q2 = q2
  q3 = q3
  Runs = {}
  Pulls = {p1, p2}
  Requests = {q1, q2, q3}
  PullOf <- P3
  OwnerRequests = {q2}
  None = None
  Start = Start
  Alien = Alien
  MaxFaults = 1
  MaxDrift = 1
  MaxLost = 1
INVARIANTS GateIsJournaled OneAttempt MergedOnBase

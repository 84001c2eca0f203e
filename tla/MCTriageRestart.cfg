CONSTANTS
  Jobs = {j1}
  Servers = {s1, s2}
  Workers = {s1, s2}
  Lanes = {l1}
  Attempts = {a1}
  Modes = {"gateway"}
  Cancels = {}
  Outcomes = {"completed"}
  Lease = 2
  MaxFaults = 0
  Serialized = FALSE
  WorkerId <- MCWorkerId
  Skew <- MCSkew
  StoreClock = 0
SPECIFICATION FairSpec
PROPERTY RestartClosesInFlight
CHECK_DEADLOCK FALSE

CONSTANTS
  Jobs = {j1}
  Servers = {s1}
  Workers = {s1}
  Lanes = {l1, l2}
  Attempts = {a1}
  Modes = {"gateway"}
  Cancels = {c1}
  Outcomes = {"completed", "failed"}
  Lease = 2
  MaxFaults = 1
  Serialized = FALSE
  WorkerId <- MCWorkerId
  Skew <- MCSkew
  StoreClock = 0
SPECIFICATION Spec
PROPERTY SettledLanesNeverChange
CHECK_DEADLOCK FALSE

CONSTANTS
  Jobs = {j1, j2}
  Servers = {s1}
  Workers = {s1}
  Lanes = {l1}
  Attempts = {a1, a2}
  Modes = {"mock"}
  Cancels = {c1}
  Outcomes = {"completed"}
  Lease = 1
  MaxFaults = 0
  Serialized = FALSE
  WorkerId <- MCWorkerId
  Skew <- MCSkew
  StoreClock = 0
SPECIFICATION Spec
INVARIANTS OneActiveAttempt
CHECK_DEADLOCK FALSE

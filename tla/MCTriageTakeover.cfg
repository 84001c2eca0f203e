CONSTANTS
  Jobs = {j1}
  Servers = {s1, s2}
  Workers = {s1, s2}
  Lanes = {l1}
  Attempts = {a1}
  Modes = {"gateway"}
  Cancels = {c1}
  Outcomes = {"completed"}
  Lease = 2
  MaxFaults = 1
  Serialized = FALSE
  WorkerId <- MCWorkerId
  Skew <- MCSkew
  StoreClock = 0
SPECIFICATION Spec
INVARIANTS SingleExecutor LifecycleRule RefusedDidNoWork
PROPERTIES LeaseFence ActiveWorkerNotAbandoned ImplementsContract
CHECK_DEADLOCK FALSE

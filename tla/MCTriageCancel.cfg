CONSTANTS
  Jobs = {j1}
  Servers = {s1}
  Workers = {s1}
  Lanes = {l1, l2}
  Attempts = {a1}
  Modes = {"gateway", "mock"}
  Cancels = {c1, c2}
  Outcomes = {"completed", "failed"}
  Lease = 2
  MaxFaults = 1
  Serialized = FALSE
  WorkerId <- MCWorkerId
  Skew <- MCSkew
  StoreClock = 0
SPECIFICATION Spec
INVARIANTS TypeOK ClosedOnce OutcomePublished ReportsHonoured ClosedLanesSettled
PROPERTIES TerminalIsFinal SettledLanesKept LeaseNotShortened
CHECK_DEADLOCK FALSE

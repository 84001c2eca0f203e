CONSTANTS
  LaneCount = 2
  MAX_PROGRESS_EVENTS = 5
  MaxForeign = 2
SPECIFICATION Spec
INVARIANTS TypeOK CallbacksDrained ResolvedIsClean
PROPERTIES Settles
CHECK_DEADLOCK FALSE

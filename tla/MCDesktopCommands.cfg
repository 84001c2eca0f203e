CONSTANTS
  save = save
  note = note
  Tools <- MCTools
  McpTools = {}
  SideEffect <- MCSideEffect
  Targets <- MCTargets
  TargetClass <- MCTargetClass
  Within <- MCWithin
  NoRequest = NoRequest
  Sessions = {s1}
  Turns = {t1}
  Commands = {c1, c2}
  Nobody = Nobody
  Workspaces = {w1, w2}
  Home = w1
  MaxGeneration = 2
SPECIFICATION FairSpec
CHECK_DEADLOCK FALSE
INVARIANTS ApprovalSpentOnce MemoryMatchesWorkspace HistoryKept
PROPERTIES TurnsEnd

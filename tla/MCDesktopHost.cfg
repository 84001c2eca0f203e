CONSTANTS
  save = save
  note = note
  Tools <- MCTools
  McpTools = {}
  SideEffect <- MCSideEffect
  Targets <- MCTargets
  TargetClass <- MCTargetClass
  Within <- MCWithin
  NoRequest = NoRequest
  Sessions = {s1, s2}
  Turns = {t1, t2}
  Commands = {c1}
  Nobody = Nobody
  Workspaces = {w1, w2}
  Home = w1
  MaxGeneration = 2
SPECIFICATION Spec
INVARIANTS TypeOK JoinersGetTheirFlight TurnOwnsSession OnlyCommandsGoBack
  HistoryKept
SYMMETRY MCSymmetry
CHECK_DEADLOCK FALSE

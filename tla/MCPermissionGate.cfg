CONSTANTS
  search = search
  post = post
  save = save
  edit = edit
  folder = folder
  note = note
  mem = mem
  page = page
  Tools <- MCTools
  McpTools <- MCMcpTools
  SideEffect <- MCSideEffect
  Targets <- MCTargets
  TargetClass <- MCTargetClass
  Within <- MCWithin
  NoRequest = NoRequest
  MaxRequests = 2
  MaxRuns = 3
SPECIFICATION Spec
INVARIANTS TypeOK WritesApproved OnlyOnceAsked SpentOnce
CHECK_DEADLOCK FALSE

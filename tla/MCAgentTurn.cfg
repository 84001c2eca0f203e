CONSTANTS
  own = own
  other = other
  search = search
  timeline = timeline
  kb = kb
  Sessions <- MCSessions
  EntryCap = 2
  TotalBytes = 3
  NoEntry = NoEntry
  Own = own
  Tools <- MCTools
  SearchLogs = search
  LogTools <- MCLogTools
  TriageTools <- MCTriageTools
  Asks <- MCAsks
  CheckpointSizes = {2, 4}
  NoLens = NoLens
  NoCheckpoint = NoCheckpoint
  NoAnswer = NoAnswer
  NoTool = NoTool
  MaxRounds = 2
  MaxBatch = 2
  MaxTurns = 2
  MaxChanges = 1
  MaxSequence = 2
SPECIFICATION FairSpec
INVARIANTS TypeOK OneRevision RetryTruthful Grounded CheckpointsBounded
PROPERTIES TurnEnds
CHECK_DEADLOCK FALSE

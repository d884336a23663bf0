SPECIFICATION FairSpec
CONSTANTS
  MinX = 0
  MinY = 0
  MaxX = 1
  MaxY = 1
  CellSize = 1
  Player = {c1, c2}
  Pos <- OnePos
  Spawn <- SpawnPos
  Nil = Nil
  InCap = 1
  InboundCap = 1
  Roles = {"player", "spectator"}
  Quitters = {c1}
  Kicks = {c1}
  TickHz = 1
  AoiHz = 0
  AllHz = 1
  TickPeriod = 1
  AoiModes = {TRUE}
INVARIANT LeakOnlyIfRaced
PROPERTIES Deregistered SnapshotsForget LogicLives

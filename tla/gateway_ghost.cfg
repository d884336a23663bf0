SPECIFICATION Spec
CONSTANTS
  MinX = 0
  MinY = 0
  MaxX = 1
  MaxY = 1
  CellSize = 1
  Player = {c1, c2}
  Pos <- OnePos
  Spawn <- SpawnPos
  Nil = Nil
  InCap = 1
  InboundCap = 2
  Roles = {"player", "spectator"}
  Quitters = {c1, c2}
  Kicks = {c1, c2}
  TickHz = 1
  AoiHz = 1
  AllHz = 1
  TickPeriod = 1
  AoiModes = {TRUE}
INVARIANT NoGhost

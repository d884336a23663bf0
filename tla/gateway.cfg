SPECIFICATION Spec
CONSTANTS
  MinX = 0
  MinY = 0
  MaxX = 1
  MaxY = 1
  CellSize = 1
  Player = {c1, c2}
  Pos <- OnePos
  Spawn <- SpawnPos
  Nil = Nil
  InCap = 2
  InboundCap = 1
  Roles = {"player"}
  Quitters = {c1, c2}
  Kicks = {c1, c2}
  TickHz = 1
  AoiHz = 0
  AllHz = 0
  TickPeriod = 1
  AoiModes = {TRUE}
SYMMETRY Connections
INVARIANTS TypeOK GhostOnlyIfRaced
PROPERTY ImplementsUplink

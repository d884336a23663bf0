SPECIFICATION Spec
CONSTANTS
  MinX = 0
  MinY = 0
  MaxX = 1
  MaxY = 1
  CellSize = 1
  Player = {1}
  Pos <- OnePos
  Spawn <- SpawnPos
  Nil = Nil
  InCap = 1
  TickHz = 1
  AoiHz = 0
  AllHz = 1
  TickPeriod = 1
  AoiModes = {TRUE}
  Gw = {1, 2}
  Failures = {"crash", "link", "scene"}
  InboundCap = 1
  UpCap = 1
  WireCap = 1
  OutCap = 1
INVARIANTS GhostOnlyIfRaced OutServing SilentOnlyIfOverlapped

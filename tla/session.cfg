SPECIFICATION FairSpec
CONSTANTS
  MinX = 0
  MinY = 0
  MaxX = 1
  MaxY = 1
  CellSize = 1
  Player = {1}
  Pos <- OnePos
  Spawn <- SpawnPos
  Nil = Nil
  InCap = 1
  TickHz = 1
  AoiHz = 1
  AllHz = 0
  TickPeriod = 1
  AoiModes = {TRUE}
  Gw = {1}
  Failures = {"crash", "link", "scene"}
  InboundCap = 1
  UpCap = 2
  WireCap = 1
  OutCap = 1
INVARIANT TypeOK
PROPERTIES ImplementsUplink LoginsReachScene Deregistered LogicLives

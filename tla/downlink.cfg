SPECIFICATION FairSpec
CONSTANTS
  MinX = 0
  MinY = 0
  MaxX = 3
  MaxY = 1
  CellSize = 1
  Player = {me, p1}
  Pos <- NearPos
  Spawn <- SpawnPos
  Nil = Nil
  InCap = 1
  TickHz = 1
  AoiHz = 1
  AllHz = 1
  TickPeriod = 1
  AoiModes = {TRUE, FALSE}
  Me = me
  Setups <- AllSetups
  RelayCap = 1
INVARIANTS TypeOK OnlyMinimapPrecedes PendingExact
PROPERTIES Heals ScreenHeals TicksGoOn

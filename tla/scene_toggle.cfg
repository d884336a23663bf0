SPECIFICATION FairSpec
CONSTANTS
  MinX <- GridMinX
  MinY = 0
  MaxX = 5
  MaxY = 4
  CellSize = 3
  Player = {p1, p2}
  Pos <- RowPos
  Spawn <- SpawnPos
  Nil = Nil
  InCap = 1
  TickHz = 2
  AoiHz = 1
  AllHz = 1
  TickPeriod = 2
  AoiModes = {TRUE, FALSE}
  Rejoin = {p1}
INVARIANTS StaleOnlyIfAgain NeverBlind
PROPERTY Converges

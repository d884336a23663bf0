SPECIFICATION Spec
CONSTANTS
  MinX <- GridMinX
  MinY = 0
  MaxX = 5
  MaxY = 4
  CellSize = 3
  Player = {p1, p2, p3}
  Pos <- GridPos
  Spawn <- SpawnPos
  Nil = Nil
  InCap = 2
  TickHz = 3
  AoiHz = 3
  AllHz = 1
  TickPeriod = 3
  AoiModes = {TRUE}
  Rejoin = {}
SYMMETRY Players
INVARIANTS TypeOK KnownExact
PROPERTY ImplementsWorld

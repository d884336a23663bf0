-------------------------------- MODULE Aoi --------------------------------
(***************************************************************************)
(* The nine-grid area-of-interest index of internal/aoi/aoi.go, as pure    *)
(* operators on the index (a function from cell ids to sets of players).   *)
(*                                                                         *)
(* A position is the pair of integers that gridID obtains from the two     *)
(* float32 coordinates with int(x), int(y): no caller in the scene tells   *)
(* two positions with the same integer part apart, except to copy them.    *)
(* Positions may lie outside the map, as the code accepts them.            *)
(***************************************************************************)
EXTENDS Integers

CONSTANTS MinX, MinY, MaxX, MaxY,  \* the map, in world units
          CellSize                 \* side of a cell, in world units

ASSUME GridAssumption ==
  /\ MinX \in Int /\ MinY \in Int
  /\ MaxX \in Int /\ MaxY \in Int
  /\ MinX < MaxX /\ MinY < MaxY
  /\ CellSize \in Nat \ {0}

Position == Int \X Int

\* The number of columns and rows: the map's sides divided by the cell's,
\* rounded up.
CntX == (MaxX - MinX + CellSize - 1) \div CellSize
CntY == (MaxY - MinY + CellSize - 1) \div CellSize

Cell == 0 .. CntX * CntY - 1

EmptyIndex == [g \in Cell |-> {}]

-----------------------------------------------------------------------------
\* Go's integer division rounds towards zero, TLA+'s towards minus infinity.
GoDiv(a, b) == IF a >= 0 THEN a \div b ELSE -((-a) \div b)

Clamp(v, lo, hi) == IF v < lo THEN lo ELSE IF v > hi THEN hi ELSE v

Col(x) == Clamp(GoDiv(x - MinX, CellSize), 0, CntX - 1)
Row(y) == Clamp(GoDiv(y - MinY, CellSize), 0, CntY - 1)

GridID(pos) == Row(pos[2]) * CntX + Col(pos[1])

\* MUTANT: without the bounds on the column, the neighbours of a border cell
\* wrap around to the other end of the next row.
SurroundNoBound(g) ==
  LET col == g % CntX
      row == g \div CntX
  IN  { r * CntX + c : r \in (row-1 .. row+1) \cap (0 .. CntY-1),
                       c \in col-1 .. col+1 } \cap Cell

\* The cell itself and those of its eight neighbours that exist.
SurroundCellIDs(g) ==
  LET col == g % CntX
      row == g \div CntX
  IN  { r * CntX + c : r \in (row-1 .. row+1) \cap (0 .. CntY-1),
                       c \in (col-1 .. col+1) \cap (0 .. CntX-1) }

\* Whoever is indexed in the nine cells around pos, the player that stands
\* at pos included.
PlayersAround(index, pos) ==
  UNION { index[g] : g \in SurroundCellIDs(GridID(pos)) }

-----------------------------------------------------------------------------
(***************************************************************************)
(* The three operations of the manager.  Each is split into the index it   *)
(* leaves behind and the list of players it returns (as a set: the code    *)
(* ranges over a Go map, whose order is arbitrary).                        *)
(***************************************************************************)
EnterIndex(index, p, pos) == [index EXCEPT ![GridID(pos)] = @ \cup {p}]

\* Computed before p is added.
EnterView(index, pos) == PlayersAround(index, pos)

LeaveIndex(index, p, pos) == [index EXCEPT ![GridID(pos)] = @ \ {p}]

\* Computed after p is removed.
LeaveView(index, p, pos) == PlayersAround(LeaveIndex(index, p, pos), pos)

MoveIndex(index, p, old, new) ==
  IF GridID(old) = GridID(new)
  THEN index
  ELSE [index EXCEPT ![GridID(old)] = @ \ {p}, ![GridID(new)] = @ \cup {p}]

MoveEntered(index, p, old, new) ==
  IF GridID(old) = GridID(new)
  THEN {}
  ELSE PlayersAround(MoveIndex(index, p, old, new), new)
         \ (PlayersAround(index, old) \cup {p})

MoveLeft(index, p, old, new) ==
  IF GridID(old) = GridID(new)
  THEN {}
  ELSE PlayersAround(index, old)
         \ (PlayersAround(MoveIndex(index, p, old, new), new) \cup {p})

-----------------------------------------------------------------------------
(***************************************************************************)
(* The reference definition of visibility, from which no operation above   *)
(* is computed: two positions see each other when their cells are the same *)
(* or touch, along a side or at a corner.                                  *)
(***************************************************************************)
InView(a, b) ==
  /\ Col(a[1]) - Col(b[1]) \in -1 .. 1
  /\ Row(a[2]) - Row(b[2]) \in -1 .. 1
=============================================================================
